---------------------------- MODULE Spec2Model ----------------------------
(***************************************************************************)
(* A model of the island generator (src/island-generator): the colour      *)
(* mapper, the mask shaper, the noise functions and the frame renderer.    *)
(*                                                                         *)
(* Numbers.  JavaScript numbers are doubles; here every real quantity is   *)
(* a fixed-point integer counting thousandths (0.5 is 500, 1.0 is 1000),   *)
(* and a product of two such numbers is floored back to thousandths.       *)
(* Colour channels handed out by hexToRgb and interpolateColors are whole  *)
(* numbers 0..255.  The ratio of the colour interpolation is kept as an    *)
(* exact fraction num/den, so Math.round sees the exact real value of      *)
(* a + ratio * (b - a).  The three values a double has beside the reals    *)
(* (NaN, +Infinity, -Infinity) are the three integers NaN, PosInf, NegInf  *)
(* that no computation of the model reaches otherwise.                     *)
(*                                                                         *)
(* Sizes.  The canvas of the page is 100..2000 pixels wide and high; the   *)
(* canvases here are a few pixels wide and high, with the same code run on *)
(* every pixel.  The initial states of SpecColor, SpecMask and SpecDraw    *)
(* are configurations the controls of the page lead to, which all set      *)
(* currentPreset to 'Custom' (markAsCustom).  SpecNoise starts from the    *)
(* configuration of the page, SpecConfig from the layer lists removeLayer  *)
(* leaves of it, and SpecRender runs draw() on configurations given from   *)
(* outside the page.  SpecPage, SpecLayers, SpecDebounce, SpecPreset and   *)
(* SpecAnim follow the handlers of the page from the configuration it      *)
(* loads with; SpecPreset does so for the terrain generator                *)
(* (src/terrain-generator) too, and SpecWalker follows a Walker of the     *)
(* random walker sketch (src/gaussian-walker).                             *)
(*                                                                         *)
(* The GUI.  The controls are those of lil-gui, which is not part of the   *)
(* sources: a control stores the new value into config and runs its        *)
(* onChange handler; setValue is taken to refresh the control only.        *)
(* Math.random() is a stream of draws in thousandths, one of               *)
(* RandomStreams for a run of randomizeTerrain.                            *)
(***************************************************************************)
EXTENDS Integers, Sequences, FiniteSets, TLC

VARIABLES
    config,     \* the global configuration object (config.js:85-142)
    colorCall,  \* the last call of getColorForValue: its argument and result
    maskCall,   \* the last call of applyMask: its arguments and result
    maskPrev,   \* the call of applyMask before the last one
    frame,      \* the last run of draw(): the config it read and, for every
                \* pixel, the locals of the loop body
    data,       \* img.data of the last draw(): the RGBA bytes put on the canvas
    animationId, \* app.js: the pending requestAnimationFrame handle, 0 for none
    noiseCall,  \* the last call of rawPerlin or perlin: arguments and result
    noisePrev,  \* the call of rawPerlin or perlin before the last one
    prevDraw,   \* the configuration and the bytes of the draw() before the
                \* last one
    rafPending, \* the number of callbacks requestAnimationFrame holds
    loopLog,    \* the number of runs of loop() so far and what the last
                \* of them did
    exported,   \* the last run of exportMap(): the config it read, the
                \* text it built and the frame the canvas showed then
    drawTimeout, \* utils.js:82: the pending timer of debouncedDraw, 0 for none
    guiLog,     \* the number of operations of the GUI and calls of
                \* applyPreset, startAnimation and stopAnimation so far,
                \* and the last of them
    presetStore, \* the presets object of the page and the preset whose
                \* thresholds array config.thresholds is, "none" while it
                \* is an array of its own
    presetCall, \* the last call of applyPreset: its argument, config before
                \* and after it, and whether it rebuilt the threshold GUI
                \* and ran draw()
    walker,     \* a Walker of the random walker sketch
                \* (gaussian-walker/algorithms/random-walker.js), with the
                \* size of the canvas it walks on and the number of its
                \* steps
    timer       \* the timers of draw() the browser holds: their number, the
                \* time left to the newest of them, the time since the last
                \* call of debouncedDraw, the calls since the last draw() of
                \* a timer, and how long after the last call that draw() ran

callVars ==
    <<colorCall, maskCall, maskPrev, noiseCall, noisePrev, presetCall>>
canvasVars == <<frame, data, prevDraw>>
drawVars == <<frame, data, animationId, prevDraw, rafPending, loopLog>>
timerVars == <<drawTimeout, timer>>
guiVars == <<exported, drawTimeout, guiLog, timer, presetStore, walker>>
vars == <<config, colorCall, maskCall, maskPrev, frame, data, animationId,
          noiseCall, noisePrev, prevDraw, rafPending, loopLog,
          exported, drawTimeout, guiLog, timer, presetStore, presetCall,
          walker>>

---------------------------------------------------------------------------
(* Bounds of the model. *)

\* the longest colour-stop list drawn for getColorForValue
MaxStops == 3
\* the largest canvas width and height drawn for applyMask
MaxDim == 4
\* the largest canvas width and height draw() renders
CanvasDim == 2
\* the number of animation frames followed
MaxTicks == 2
\* the number of operations of the GUI followed
MaxOps == 2
\* the number of layers after which addLayer is not followed
MaxLayers == 8

\* the steps of a walker that are followed
MaxSteps == 3

\* the longest step of the clock, in ms
TickMs == 10

---------------------------------------------------------------------------
(* Numbers. *)

PosInf == 1000 * 1000 * 1000
NegInf == 0 - PosInf
NaN == PosInf + 1
\* the value of a property an object does not have
Undefined == NaN + 1

IsFinite(v) == v > NegInf /\ v < PosInf

Abs(v) == IF v < 0 THEN 0 - v ELSE v
Max(a, b) == IF a >= b THEN a ELSE b
Min(a, b) == IF a <= b THEN a ELSE b

\* a * b of two numbers in thousandths, in thousandths (floored)
Mul(a, b) == (a * b) \div 1000

\* Math.round of the fraction n / d with d > 0: the nearest integer, a tie
\* going up (Math.round(127.5) = 128, Math.round(-0.5) = 0)
Round(n, d) == (2 * n + d) \div (2 * d)

---------------------------------------------------------------------------
(* Colours.  A hex colour string "#rrggbb" is the sequence of its six hex  *)
(* digits, each 0..15.                                                     *)

Black == <<0, 0, 0, 0, 0, 0>>
White == <<15, 15, 15, 15, 15, 15>>
Red == <<15, 15, 0, 0, 0, 0>>
RoyalBlue == <<4, 1, 6, 9, 14, 1>>

Palette == {Black, White, Red, RoyalBlue}

hexToRgb(hex) ==
    IF Len(hex) = 6 /\ \A k \in 1..6 : hex[k] \in 0..15
    THEN [r |-> 16 * hex[1] + hex[2],
          g |-> 16 * hex[3] + hex[4],
          b |-> 16 * hex[5] + hex[6]]
    ELSE [r |-> 0, g |-> 0, b |-> 0]

\* Math.round(lerp(a, b, t)) for the ratio t = num / den, as a double
\* computes it: den = 0 makes t infinite (num # 0) or NaN (num = 0), and
\* a + t * (b - a) is then infinite, or NaN when b - a = 0.
roundLerp(a, b, num, den) ==
    IF den = 0
    THEN IF num = 0 \/ b = a THEN NaN
         ELSE IF (num > 0) = (b > a) THEN PosInf ELSE NegInf
    ELSE IF den > 0
         THEN Round(a * den + num * (b - a), den)
         ELSE Round(0 - (a * den + num * (b - a)), 0 - den)

interpolateColors(c1, c2, num, den) ==
    LET a == hexToRgb(c1)
        b == hexToRgb(c2)
    IN  [r |-> roundLerp(a.r, b.r, num, den),
         g |-> roundLerp(a.g, b.g, num, den),
         b |-> roundLerp(a.b, b.b, num, den)]

\* the index of the stop the loop of getColorForValue stops at, scanning
\* from index i: the first stop with value <= threshold, 0 when the loop
\* runs off the end of the list
RECURSIVE scanStops(_, _, _)
scanStopsStrict(stops, value, i) ==
    IF i > Len(stops) THEN 0
    ELSE IF value < stops[i].threshold THEN i
    ELSE scanStops(stops, value, i + 1)
scanStops(stops, value, i) ==
    IF i > Len(stops) THEN 0
    ELSE IF value <= stops[i].threshold THEN i
    ELSE scanStops(stops, value, i + 1)

\* the ratio of the interpolation at matched stop i, as the fraction
\* num / den of renderer.js:24
ratioNum(stops, value, i) == value - stops[i - 1].threshold
ratioDen(stops, value, i) == stops[i].threshold - stops[i - 1].threshold

getColorForValueFloor(stops, smoothing, value) ==
    LET i == scanStops(stops, value, 1)
    IN  IF i = 0 THEN hexToRgb(White)
        ELSE IF smoothing /\ i > 1
             THEN LET a == hexToRgb(stops[i - 1].color)
                      b == hexToRgb(stops[i].color)
                      n == ratioNum(stops, value, i)
                      d == ratioDen(stops, value, i)
                  IN  [r |-> (a.r * d + n * (b.r - a.r)) \div d,
                       g |-> (a.g * d + n * (b.g - a.g)) \div d,
                       b |-> (a.b * d + n * (b.b - a.b)) \div d]
             ELSE hexToRgb(stops[i].color)
getColorForValue(stops, smoothing, value) ==
    LET i == scanStops(stops, value, 1)
    IN  IF i = 0 THEN hexToRgb(White)
        ELSE IF smoothing /\ i > 1
             THEN interpolateColors(stops[i - 1].color, stops[i].color,
                                    ratioNum(stops, value, i),
                                    ratioDen(stops, value, i))
             ELSE hexToRgb(stops[i].color)

---------------------------------------------------------------------------
(* The mask shaper.  Pixel coordinates are whole numbers; cx, cy, the     *)
(* distances and the gradients are in thousandths.                        *)

\* the largest r in lo..hi with r * r <= v (lo * lo <= v < (hi + 1)^2)
RECURSIVE floorSqrt(_, _, _)
floorSqrt(v, lo, hi) ==
    IF lo >= hi THEN lo
    ELSE LET mid == (lo + hi + 1) \div 2
         IN  IF mid * mid <= v THEN floorSqrt(v, mid, hi)
             ELSE floorSqrt(v, lo, mid - 1)

\* Math.sqrt of a number in thousandths, in thousandths (floored)
Sqrt(v) == floorSqrt(v * 1000, 0, 40000)

\* a / b of two numbers in thousandths, b > 0, in thousandths (floored)
Div(a, b) == (a * 1000) \div b

\* renderer.js:50-61: the gradient of the circle mask
circleGradNotInverted(cfg, x, y) ==
    LET cx == cfg.width * 500
        cy == cfg.height * 500
        distx == Abs(x * 1000 - cx)
        disty == Abs(y * 1000 - cy)
        dist == Sqrt(Mul(distx, distx) + Mul(disty, disty))
        maxGrad == Sqrt(Mul(cx, cx) + Mul(cy, cy))
    IN  Mul(Div(dist, maxGrad) - 500, 2000)
circleGrad(cfg, x, y) ==
    LET cx == cfg.width * 500
        cy == cfg.height * 500
        distx == Abs(x * 1000 - cx)
        disty == Abs(y * 1000 - cy)
        dist == Sqrt(Mul(distx, distx) + Mul(disty, disty))
        maxGrad == Sqrt(Mul(cx, cx) + Mul(cy, cy))
        g1 == Div(dist, maxGrad)
        g2 == g1 - 500
        g3 == Mul(g2, 2000)
    IN  0 - g3

\* renderer.js:80-84: the gradient of the square mask
squareGrad(cfg, x, y) ==
    LET cx == cfg.width * 500
        cy == cfg.height * 500
        dx == Div(Abs(x * 1000 - cx), cx)
        dy == Div(Abs(y * 1000 - cy), cy)
        squareDist == Max(dx, dy)
    IN  Max(0, 1000 - squareDist)

\* renderer.js:97-103: the gradient of the hexagon mask
hexGrad(cfg, x, y) ==
    LET cx == cfg.width * 500
        cy == cfg.height * 500
        dx == Div(Abs(x * 1000 - cx), cx)
        dy == Div(Abs(y * 1000 - cy), cy)
        qx == Abs(dx)
        qy == Abs(dy)
        hexDist == Max(qx, Mul(qy, 866) + Mul(qx, 500))
    IN  Max(0, 1000 - hexDist)

\* the gradient the enabled mask computes at pixel (x, y)
maskGrad(cfg, x, y) ==
    IF cfg.maskShape = "circle" THEN circleGrad(cfg, x, y)
    ELSE IF cfg.maskShape = "square" THEN squareGrad(cfg, x, y)
    ELSE IF cfg.maskShape = "hexagon" THEN hexGrad(cfg, x, y)
    ELSE 0

\* renderer.js:64-76, 86-93, 105-112: the value under a gradient and a
\* contrast factor
maskedNoClamp(value, grad, contrast) ==
    IF grad > 0
    THEN LET maskedValue == Mul(value, grad)
         IN  IF maskedValue > 0 THEN Mul(maskedValue, contrast)
             ELSE maskedValue
    ELSE 0
masked(value, grad, contrast) ==
    IF grad > 0
    THEN LET maskedValue == Mul(value, grad)
             contrasted == IF maskedValue > 0
                           THEN Mul(maskedValue, contrast)
                           ELSE maskedValue
         IN  Max(0, Min(1000, contrasted))
    ELSE 0

applyMaskAlways(cfg, x, y, value) ==
    masked(value, maskGrad(cfg, x, y), cfg.maskContrast)
applyMaskSameContrast(cfg, x, y, value) ==
    IF ~cfg.mask THEN value
    ELSE IF cfg.maskShape \in {"circle", "square", "hexagon"}
         THEN masked(value, maskGrad(cfg, x, y), cfg.maskContrast)
         ELSE value
applyMask(cfg, x, y, value) ==
    IF ~cfg.mask THEN value
    ELSE IF cfg.maskShape = "circle"
         THEN masked(value, circleGrad(cfg, x, y), cfg.maskContrast)
    ELSE IF cfg.maskShape = "square"
         THEN masked(value, squareGrad(cfg, x, y),
                     Mul(cfg.maskContrast, 750))
    ELSE IF cfg.maskShape = "hexagon"
         THEN masked(value, hexGrad(cfg, x, y),
                     Mul(cfg.maskContrast, 750))
    ELSE value

---------------------------------------------------------------------------
(* The noise functions.  Noise coordinates and noise values are in        *)
(* thousandths; lattice coordinates ix, iy and the seed are whole numbers.*)
(*                                                                         *)
(* pseudoRandom takes the fractional part of sin(dot) * 43758.5453123,    *)
(* which integer arithmetic cannot follow.  It is modelled by a fixed     *)
(* scrambling of 10 * dot (an integer: 1271 ix + 3117 iy + 99990 seed)    *)
(* onto 0..999: like the code's, a deterministic function of (ix, iy,     *)
(* seed) alone with values in [0, 1).  Math.cos and Math.sin of the angle *)
(* pseudoRandom * 2 PI are read from a table of sixteen unit vectors.     *)

fract(x) == x - 1000 * (x \div 1000)

pseudoRandom(x, y, seed) ==
    LET dot10 == x * 1271 + y * 3117 + seed * 99990
    IN  ((dot10 % 100003) * 7919) % 1000

\* 1000 * cos(k * 22.5 degrees)
cos16(k) ==
    << 1000, 924, 707, 383, 0, -383, -707, -924,
       -1000, -924, -707, -383, 0, 383, 707, 924 >>[(k % 16) + 1]
sin16(k) == cos16(k + 12)

randomGradient(ix, iy, seed) ==
    LET k == (pseudoRandom(ix, iy, seed) * 16) \div 1000
    IN  [x |-> cos16(k), y |-> sin16(k)]

dotGridGradient(ix, iy, x, y, seed) ==
    LET grad == randomGradient(ix, iy, seed)
        dx == x - ix * 1000
        dy == y - iy * 1000
    IN  Mul(dx, grad.x) + Mul(dy, grad.y)

\* the fade curve without its constant term
fadeNoConstant(t) == Mul(Mul(Mul(t, t), t), Mul(t, Mul(t, 6000) - 15000))
fade(t) == Mul(Mul(Mul(t, t), t), Mul(t, Mul(t, 6000) - 15000) + 10000)

lerp(a, b, t) == a + Mul(t, b - a)

rawPerlin(x, y, seed) ==
    LET x0 == x \div 1000
        x1 == x0 + 1
        y0 == y \div 1000
        y1 == y0 + 1
        sx == x - x0 * 1000
        sy == y - y0 * 1000
        u == fade(sx)
        v == fade(sy)
        n00 == dotGridGradient(x0, y0, x, y, seed)
        n10 == dotGridGradient(x1, y0, x, y, seed)
        n01 == dotGridGradient(x0, y1, x, y, seed)
        n11 == dotGridGradient(x1, y1, x, y, seed)
    IN  lerp(lerp(n00, n10, u), lerp(n01, n11, u), v)

\* the for loop of perlin from octave i on, returning total / maxValue
RECURSIVE perlinLoop(_, _, _, _, _, _, _, _, _)
perlinLoop(i, octaves, x, y, seed, total, frequency, amplitude, maxValue) ==
    IF i >= octaves THEN Div(total, maxValue)
    ELSE perlinLoop(i + 1, octaves, x, y, seed,
                    total + Mul(rawPerlin(x * frequency, y * frequency, seed),
                                amplitude),
                    frequency * 2, amplitude \div 2, maxValue + amplitude)

\* perlin, were it to take the seed of the configuration
perlinConfigSeed(cfg, x, y, seed) ==
    perlinLoop(0, IF cfg.octaves THEN 4 ELSE 1, x, y, cfg.seed, 0, 1, 1000, 0)
\* perlin, were it to sum four octaves whatever config.octaves is
perlinAlwaysFractal(cfg, x, y, seed) ==
    perlinLoop(0, 4, x, y, seed, 0, 1, 1000, 0)
perlin(cfg, x, y, seed) ==
    perlinLoop(0, IF cfg.octaves THEN 4 ELSE 1, x, y, seed, 0, 1, 1000, 0)

\* (perlin(x, y, seed) + 1) / 2 of renderer.js:139 and :152
normalized(cfg, x, y, seed) == (perlin(cfg, x, y, seed) + 1000) \div 2

---------------------------------------------------------------------------
(* The frame renderer.  The channels r, g, b of the local rgb are in      *)
(* thousandths of a channel step (255 is 255000), so that value * 255 and *)
(* shade * 100 are exact; the bytes of img.data are whole numbers.        *)

\* a channel 0..255 of hexToRgb or interpolateColors, in thousandths
channel(c) == IF IsFinite(c) THEN c * 1000 ELSE c

\* the colour before shading, were grayscale not looked at
baseColorFromStops(cfg, value) ==
    LET c == getColorForValue(cfg.thresholds, cfg.smoothing, value)
    IN  [r |-> channel(c.r), g |-> channel(c.g), b |-> channel(c.b)]
\* renderer.js:145-147: the colour before shading
baseColor(cfg, value) ==
    IF cfg.grayscale
    THEN [r |-> value * 255, g |-> value * 255, b |-> value * 255]
    ELSE LET c == getColorForValue(cfg.thresholds, cfg.smoothing, value)
         IN  [r |-> channel(c.r), g |-> channel(c.g), b |-> channel(c.b)]

\* renderer.js:152: where the second sample of the shading is taken
shadeAt(cfg, nx, ny) == <<nx + 10, ny + 10>>

\* renderer.js:152: the second sample, from the raw fractal field
shadeSampleMasked(cfg, x, y, at) ==
    applyMask(cfg, x, y, normalized(cfg, at[1], at[2], cfg.seed))
shadeSample(cfg, x, y, at) == normalized(cfg, at[1], at[2], cfg.seed)

\* renderer.js:156-158: Math.min(255, Math.max(0, c + shade * 100)); NaN
\* passes through Math.max and Math.min
shadeChannel(c, shade) ==
    IF c = NaN THEN NaN
    ELSE IF ~IsFinite(c) THEN Min(255000, Max(0, c))
    ELSE Min(255000, Max(0, c + shade * 100))

\* a store into the Uint8ClampedArray img.data: NaN is 0, the value is
\* clamped to 0..255 and rounded to the nearest integer, a tie to the even one
toUint8Clamped(c) ==
    IF c = NaN \/ c <= 0 THEN 0
    ELSE IF c >= 255000 THEN 255
    ELSE LET whole == c \div 1000
             rest == c % 1000
         IN  IF rest < 500 THEN whole
             ELSE IF rest > 500 THEN whole + 1
             ELSE IF whole % 2 = 0 THEN whole ELSE whole + 1

\* renderer.js:134-159: the body of the pixel loop, as the record of its
\* locals (sampleAt and offsetAt are the noise coordinates handed to perlin)
drawPixel(cfg, x, y) ==
    LET nx == (x * 1000) \div cfg.scale
        ny == (y * 1000) \div cfg.scale
        sampleAt == <<nx, ny + cfg.time>>
        raw == normalized(cfg, sampleAt[1], sampleAt[2], cfg.seed)
        value == applyMask(cfg, x, y, raw)
        base == baseColor(cfg, value)
        offsetAt == shadeAt(cfg, nx, ny)
        next == shadeSample(cfg, x, y, offsetAt)
        shade == value - next
    IN  IF cfg.shading
        THEN [sampleAt |-> sampleAt, raw |-> raw, value |-> value,
              base |-> base, offsetAt |-> offsetAt, next |-> next,
              shade |-> shade,
              rgb |-> [r |-> shadeChannel(base.r, shade),
                       g |-> shadeChannel(base.g, shade),
                       b |-> shadeChannel(base.b, shade)]]
        ELSE [sampleAt |-> sampleAt, raw |-> raw, value |-> value,
              base |-> base, offsetAt |-> <<0, 0>>, next |-> 0,
              shade |-> 0, rgb |-> base]

pixels(cfg) == (0..(cfg.width - 1)) \X (0..(cfg.height - 1))

\* the run of draw() under cfg: the locals of every pixel
drawFrame(cfg) ==
    [drawn |-> TRUE, cfg |-> cfg,
     px |-> [p \in pixels(cfg) |-> drawPixel(cfg, p[1], p[2])]]

\* renderer.js:162-166: the bytes of img.data, byte idx + k of pixel
\* idx = (y * width + x) * 4
drawData(cfg, fr) ==
    [i \in 0..(cfg.width * cfg.height * 4 - 1) |->
        LET x == (i \div 4) % cfg.width
            y == (i \div 4) \div cfg.width
            k == i % 4
            rgb == fr.px[<<x, y>>].rgb
        IN  IF k = 0 THEN toUint8Clamped(rgb.r)
            ELSE IF k = 1 THEN toUint8Clamped(rgb.g)
            ELSE IF k = 2 THEN toUint8Clamped(rgb.b)
            ELSE 255]

---------------------------------------------------------------------------
(* The configuration object. *)

Stop(t, c) == [threshold |-> t, color |-> c]

\* presets.Island.thresholds, the list config.thresholds starts as a copy of
IslandThresholds ==
    << Stop(0, <<4, 1, 6, 9, 14, 1>>),
       Stop(20, <<14, 14, 13, 6, 10, 15>>),
       Stop(40, <<13, 2, 11, 4, 8, 12>>),
       Stop(150, <<2, 2, 8, 11, 2, 2>>),
       Stop(300, <<0, 0, 6, 4, 0, 0>>),
       Stop(450, <<8, 11, 8, 9, 8, 9>>),
       Stop(1000, <<15, 15, 15, 10, 15, 10>>) >>

\* the config object as config.js:85-109 builds it; the canvas is CanvasDim
\* pixels wide and high in place of 400
DefaultConfig ==
    [width |-> CanvasDim, height |-> CanvasDim,
     scale |-> 50, seed |-> 0, speed |-> 10, time |-> 0,
     grayscale |-> FALSE, octaves |-> TRUE, smoothing |-> TRUE,
     shading |-> TRUE,
     mask |-> TRUE, maskShape |-> "circle", maskContrast |-> 4000,
     thresholds |-> IslandThresholds, currentPreset |-> "Island"]

NoColorCall ==
    [called |-> FALSE, value |-> 0, index |-> 0, num |-> 0, den |-> 0,
     result |-> [r |-> 0, g |-> 0, b |-> 0]]

NoMaskCall ==
    [called |-> FALSE, x |-> 0, y |-> 0, value |-> 0, grad |-> 0, result |-> 0]

\* before the first draw()
NoFrame == [drawn |-> FALSE, cfg |-> DefaultConfig, px |-> <<>>]

\* before the second draw()
NoDraw == [drawn |-> FALSE, cfg |-> DefaultConfig, data |-> <<>>]

NoNoiseCall ==
    [called |-> FALSE, fn |-> "rawPerlin", x |-> 0, y |-> 0, seed |-> 0,
     octaves |-> FALSE, ops |-> 0, result |-> 0, unit |-> 0]

\* before the first exportMap()
NoExport ==
    [done |-> FALSE, cfg |-> DefaultConfig, map |-> <<>>, shown |-> NoFrame]

NoGui == [count |-> 0, last |-> "none"]

\* utils.js:85: the delay of the timer of debouncedDraw, in ms
TimerDelay == 50

\* before the first debouncedDraw()
NoTimer ==
    [pending |-> 0, left |-> 0, since |-> 0, calls |-> 0, fired |-> FALSE,
     waited |-> 0]

\* before the first loop()
NoLoop ==
    [runs |-> 0, speed |-> 0, before |-> 0, after |-> 0, drew |-> FALSE,
     requests |-> 0]

\* no function of the core has been called
\* presets.Desert.thresholds
DesertThresholds ==
    << Stop(300, <<0, 0, 0, 0, 0, 0>>),
       Stop(500, <<14, 0, 12, 0, 8, 0>>),
       Stop(700, <<13, 9, 11, 2, 6, 15>>),
       Stop(850, <<10, 10, 9, 9, 6, 6>>),
       Stop(1000, <<8, 8, 8, 8, 8, 8>>) >>

\* presets.Archipelago.thresholds
ArchipelagoThresholds ==
    << Stop(0, <<4, 1, 6, 9, 14, 1>>),
       Stop(10, <<14, 14, 13, 6, 10, 15>>),
       Stop(30, <<13, 2, 11, 4, 8, 12>>),
       Stop(120, <<2, 2, 8, 11, 2, 2>>),
       Stop(250, <<0, 0, 6, 4, 0, 0>>),
       Stop(350, <<8, 11, 8, 9, 8, 9>>),
       Stop(1000, <<15, 15, 15, 10, 15, 10>>) >>

\* presets.Rainforest.thresholds
RainforestThresholds ==
    << Stop(250, <<0, 0, 0, 0, 0, 0>>),
       Stop(350, <<15, 15, 14, 3, 9, 15>>),
       Stop(450, <<6, 5, 11, 8, 4, 15>>),
       Stop(600, <<3, 14, 9, 15, 3, 14>>),
       Stop(750, <<2, 12, 6, 6, 2, 12>>),
       Stop(1000, <<1, 15, 4, 13, 1, 15>>) >>

\* presets.Mountains.thresholds
MountainsThresholds ==
    << Stop(400, <<3, 3, 3, 3, 3, 3>>),
       Stop(500, <<7, 7, 7, 7, 7, 7>>),
       Stop(700, <<10, 10, 10, 10, 10, 10>>),
       Stop(850, <<13, 13, 13, 13, 13, 13>>),
       Stop(1000, <<15, 15, 15, 15, 15, 15>>) >>

\* config.js:11-79: the presets table; `given` names the optional fields a
\* preset sets, the others hold what applyPreset takes in their place
presets ==
    [Island |-> [scale |-> 50, seed |-> 0, given |-> {"mask", "maskShape"},
                 mask |-> TRUE, maskShape |-> "circle", maskContrast |-> 4000,
                 thresholds |-> IslandThresholds],
     Archipelago |-> [scale |-> 120, seed |-> 8,
                      given |-> {"mask", "maskShape"},
                      mask |-> TRUE, maskShape |-> "circle",
                      maskContrast |-> 4000,
                      thresholds |-> ArchipelagoThresholds],
     Desert |-> [scale |-> 80, seed |-> 3, given |-> {"mask"},
                 mask |-> FALSE, maskShape |-> "circle",
                 maskContrast |-> 4000, thresholds |-> DesertThresholds],
     Rainforest |-> [scale |-> 45, seed |-> 10, given |-> {"mask"},
                     mask |-> FALSE, maskShape |-> "circle",
                     maskContrast |-> 4000,
                     thresholds |-> RainforestThresholds],
     Mountains |-> [scale |-> 40, seed |-> 1, given |-> {"mask"},
                    mask |-> FALSE, maskShape |-> "circle",
                    maskContrast |-> 4000,
                    thresholds |-> MountainsThresholds]]

PresetNames == DOMAIN presets

\* terrain-generator/config.js:18-26
TerrainIslandThresholds ==
    << Stop(300, <<3, 15, 9, 1, 13, 14>>),
       Stop(350, <<15, 4, 14, 4, 11, 12>>),
       Stop(440, <<12, 6, 10, 0, 6, 12>>),
       Stop(550, <<2, 2, 8, 11, 2, 2>>),
       Stop(700, <<0, 0, 6, 4, 0, 0>>),
       Stop(850, <<8, 1, 4, 15, 1, 2>>),
       Stop(1000, <<15, 15, 15, 15, 15, 15>>) >>

\* terrain-generator/config.js:34-40
TerrainArchipelagoThresholds ==
    << Stop(600, <<4, 1, 6, 9, 14, 1>>),
       Stop(620, <<14, 14, 13, 6, 10, 15>>),
       Stop(650, <<13, 2, 11, 4, 8, 12>>),
       Stop(720, <<2, 2, 8, 11, 2, 2>>),
       Stop(1000, <<0, 0, 6, 4, 0, 0>>) >>

\* terrain-generator/config.js:49-54
TerrainDesertThresholds ==
    << Stop(300, <<15, 9, 13, 14, 10, 6>>),
       Stop(500, <<14, 0, 12, 0, 8, 0>>),
       Stop(660, <<13, 9, 11, 2, 6, 15>>),
       Stop(1000, <<4, 7, 7, 12, 12, 2>>) >>

\* terrain-generator/config.js:62-67
TerrainRainforestThresholds ==
    << Stop(200, <<15, 0, 13, 10, 9, 14>>),
       Stop(300, <<6, 5, 11, 8, 4, 15>>),
       Stop(440, <<3, 14, 9, 15, 3, 14>>),
       Stop(1000, <<0, 15, 4, 13, 0, 15>>) >>

\* terrain-generator/config.js:11-70: the presets table of the terrain
\* generator
terrainPresets ==
    [Island |-> [scale |-> 50, seed |-> 0,
                 given |-> {"mask", "maskShape", "maskContrast"},
                 mask |-> TRUE, maskShape |-> "circle", maskContrast |-> 1800,
                 thresholds |-> TerrainIslandThresholds],
     Archipelago |-> [scale |-> 30, seed |-> 21,
                      given |-> {"mask", "maskShape", "maskContrast"},
                      mask |-> TRUE, maskShape |-> "hexagon",
                      maskContrast |-> 1800,
                      thresholds |-> TerrainArchipelagoThresholds],
     Desert |-> [scale |-> 80, seed |-> 3,
                 given |-> {"mask", "octaves", "shading", "smoothing"},
                 mask |-> FALSE, maskShape |-> "circle",
                 maskContrast |-> 4000,
                 octaves |-> TRUE, shading |-> TRUE, smoothing |-> TRUE,
                 thresholds |-> TerrainDesertThresholds],
     Rainforest |-> [scale |-> 50, seed |-> 31,
                     given |-> {"mask", "maskShape", "maskContrast"},
                     mask |-> TRUE, maskShape |-> "hexagon",
                     maskContrast |-> 2000,
                     thresholds |-> TerrainRainforestThresholds]]

\* terrain-generator/config.js:76-101: the configuration of the terrain
\* generator as the page loads, on a canvas of one pixel; its seed of 0.01
\* is 0 here, the seeds of the noise functions being whole, and is read by
\* no draw() before applyPreset has set another
TerrainConfig ==
    [width |-> 1, height |-> 1,
     scale |-> 50, seed |-> 0, speed |-> 0, time |-> 0,
     grayscale |-> FALSE, octaves |-> TRUE, smoothing |-> FALSE,
     shading |-> TRUE,
     mask |-> TRUE, maskShape |-> "circle", maskContrast |-> 1800,
     thresholds |-> TerrainIslandThresholds, currentPreset |-> "Island"]

\* the presets object of a page as the script defines it
initialPresets(page) ==
    IF page = "terrain" THEN terrainPresets ELSE presets

\* config.js:108: config.thresholds starts as a copy of the Island list
IslandStore == [page |-> "island", presets |-> presets, shared |-> "none"]
TerrainStore ==
    [page |-> "terrain", presets |-> terrainPresets, shared |-> "none"]

\* the names every object inherits a property of from Object.prototype
ObjectPrototype == {"constructor", "toString"}

\* before a Walker is constructed
NoWalker ==
    [made |-> FALSE, cw |-> 0, ch |-> 0, x |-> 0, y |-> 0, vx |-> 0,
     vy |-> 0, lastX |-> 0, lastY |-> 0, speed |-> 0, jitter |-> 0,
     drift |-> 0, steps |-> 0]

\* before the first applyPreset()
NoPresetCall ==
    [called |-> FALSE, name |-> "none", before |-> DefaultConfig,
     after |-> DefaultConfig, rebuilt |-> FALSE, drew |-> FALSE]

IdleCalls ==
    /\ presetCall = NoPresetCall
    /\ colorCall = NoColorCall
    /\ maskCall = NoMaskCall
    /\ maskPrev = NoMaskCall
    /\ noiseCall = NoNoiseCall
    /\ noisePrev = NoNoiseCall

\* the page before initializeApp: nothing drawn, no frame scheduled
IdleCanvas ==
    /\ frame = NoFrame
    /\ data = <<>>
    /\ prevDraw = NoDraw
    /\ animationId = 0
    /\ rafPending = 0
    /\ loopLog = NoLoop

\* nothing exported, no timer armed, no control touched
IdleGui ==
    /\ exported = NoExport
    /\ drawTimeout = 0
    /\ timer = NoTimer
    /\ guiLog = NoGui
    /\ presetStore = IslandStore
    /\ walker = NoWalker

---------------------------------------------------------------------------
(* The colour mapper on its own: every stop list of at most MaxStops      *)
(* stops over StopThresholds and Palette, smoothing on or off, and calls  *)
(* of getColorForValue with the values of ColorValues.                    *)

StopThresholds == {0, 500, 1000}
ColorValues == {0, 250, 500, 750, 900, 1000}

StopLists ==
    UNION { [1..n -> {Stop(t, c) : t \in StopThresholds, c \in Palette}]
            : n \in 1..MaxStops }

ColorInit ==
    /\ \E s \in StopLists, sm \in BOOLEAN :
          config = [DefaultConfig EXCEPT !.thresholds = s, !.smoothing = sm,
                                         !.currentPreset = "Custom"]
    /\ IdleCalls
    /\ IdleCanvas
    /\ IdleGui

\* one call getColorForValue(value), with the locals i and ratio it computes
CallGetColorForValue ==
    /\ \E value \in ColorValues :
          LET stops == config.thresholds
              i == scanStops(stops, value, 1)
              interp == config.smoothing /\ i > 1
          IN  colorCall' =
                [called |-> TRUE, value |-> value, index |-> i,
                 num |-> IF interp THEN ratioNum(stops, value, i) ELSE 0,
                 den |-> IF interp THEN ratioDen(stops, value, i) ELSE 0,
                 result |-> getColorForValue(stops, config.smoothing, value)]
    /\ UNCHANGED <<config, maskCall, maskPrev, noiseCall, noisePrev, drawVars,
                   guiVars, presetCall>>

ColorNext == CallGetColorForValue

SpecColor == ColorInit /\ [][ColorNext]_vars

---------------------------------------------------------------------------
(* The mask shaper on its own: canvases of 1..MaxDim by 1..MaxDim pixels, *)
(* the mask on or off, the three shapes, and calls of applyMask at the    *)
(* pixels of the canvas with the values of MaskValues, which hold values  *)
(* below 0 and above 1.                                                   *)

MaskShapes == {"circle", "square", "hexagon"}
MaskContrasts == {1000, 4000}
MaskValues == {0 - 200, 300, 1000, 1500}

MaskInit ==
    /\ \E w \in 1..MaxDim, h \in 1..MaxDim, m \in BOOLEAN,
          sh \in MaskShapes, c \in MaskContrasts :
          config = [DefaultConfig EXCEPT !.width = w, !.height = h,
                                         !.mask = m, !.maskShape = sh,
                                         !.maskContrast = c,
                                         !.currentPreset = "Custom"]
    /\ IdleCalls
    /\ IdleCanvas
    /\ IdleGui

\* one call applyMask(x, y, value) at a pixel of the canvas; two calls are
\* followed in a run
CallApplyMask ==
    /\ ~maskPrev.called
    /\ \E x \in 0..(config.width - 1), y \in 0..(config.height - 1),
          value \in MaskValues :
          maskCall' = [called |-> TRUE, x |-> x, y |-> y, value |-> value,
                       grad |-> maskGrad(config, x, y),
                       result |-> applyMask(config, x, y, value)]
    /\ maskPrev' = maskCall
    /\ UNCHANGED <<config, colorCall, noiseCall, noisePrev, drawVars, guiVars,
                   presetCall>>

MaskNext == CallApplyMask

SpecMask == MaskInit /\ [][MaskNext]_vars

---------------------------------------------------------------------------
(* The renderer and the animation loop: the configurations of DrawInit,   *)
(* on canvases 1 to CanvasDim pixels wide and 1 or CanvasDim pixels high, *)
(* the first draw of initializeApp, the regenerate button, the frames of  *)
(* loop() and the export of the raw map.                                  *)

DrawSpeeds == {0, 10}

DrawInit ==
    /\ \E w \in 1..CanvasDim, h \in {1, CanvasDim}, sp \in DrawSpeeds,
          gs \in BOOLEAN, oc \in BOOLEAN, sm \in BOOLEAN, sh \in BOOLEAN,
          m \in BOOLEAN, shape \in MaskShapes,
          th \in {IslandThresholds, DesertThresholds} :
          \* a field the renderer does not read is left as it is
          /\ ~m => (shape = "circle" /\ th = IslandThresholds)
          /\ gs => (sm /\ th = IslandThresholds)
          /\ config = [DefaultConfig EXCEPT
                         !.width = w, !.height = h, !.scale = 10, !.seed = 3,
                         !.speed = sp, !.grayscale = gs, !.octaves = oc,
                         !.smoothing = sm, !.shading = sh, !.mask = m,
                         !.maskShape = shape, !.thresholds = th,
                         !.currentPreset = "Custom"]
    /\ IdleCalls
    /\ IdleCanvas
    /\ IdleGui

\* the canvas as draw() finds it
canvas ==
    [frame |-> frame, data |-> data, prevDraw |-> prevDraw]

\* draw() were it to add its bytes to those the canvas holds
drawOnto(cfg, cv) ==
    LET fr == drawFrame(cfg)
        new == drawData(cfg, fr)
    IN  [frame |-> fr,
         data |-> [i \in DOMAIN new |->
                     IF cv.frame.drawn /\ i \in DOMAIN cv.data
                     THEN Min(255, new[i] + cv.data[i])
                     ELSE new[i]],
         prevDraw |-> [drawn |-> cv.frame.drawn, cfg |-> cv.frame.cfg,
                       data |-> cv.data]]
\* draw() under the configuration cfg, on the canvas cv: the canvas it leaves
draw(cfg, cv) ==
    LET fr == drawFrame(cfg)
    IN  [frame |-> fr,
         data |-> drawData(cfg, fr),
         prevDraw |-> [drawn |-> cv.frame.drawn, cfg |-> cv.frame.cfg,
                       data |-> cv.data]]

\* the canvas becomes cv
put(cv) ==
    \E c \in {cv} :
        /\ frame' = c.frame
        /\ data' = c.data
        /\ prevDraw' = c.prevDraw

\* loop(), were it to call draw() whatever the speed is
loopAlwaysDraws(cv, held) ==
    LET cfg == [config EXCEPT !.time = config.time + config.speed]
    IN  /\ config' = cfg
        /\ put(draw(cfg, cv))
        /\ animationId' = 1
        /\ rafPending' = held + 1
        /\ loopLog' = [runs |-> loopLog.runs + 1, speed |-> config.speed,
                       before |-> config.time, after |-> cfg.time,
                       drew |-> TRUE, requests |-> 1]
\* app.js:17-28: the body of loop(), run on the canvas cv while the browser
\* holds `held` other frame callbacks
loop(cv, held) ==
    LET cfg == [config EXCEPT !.time = config.time + config.speed]
    IN  /\ config' = cfg
        /\ put(IF cfg.speed > 0 THEN draw(cfg, cv) ELSE cv)
        /\ animationId' = 1
        /\ rafPending' = held + 1
        /\ loopLog' = [runs |-> loopLog.runs + 1, speed |-> config.speed,
                       before |-> config.time, after |-> cfg.time,
                       drew |-> cfg.speed > 0, requests |-> 1]

\* app.js:54-64: initializeApp: draw(), then startAnimation(), which runs
\* loop() as no frame is scheduled yet
InitializeApp ==
    /\ ~frame.drawn /\ animationId = 0
    /\ loop(draw(config, canvas), rafPending)
    /\ UNCHANGED <<callVars, guiVars>>

\* config.js:141: the regenerate entry of config, draw()
Regenerate ==
    /\ frame.drawn
    /\ put(draw(config, canvas))
    /\ UNCHANGED <<config, animationId, rafPending, loopLog, callVars,
                   guiVars>>

\* a frame callback the browser holds runs loop(); MaxTicks runs of loop()
\* are followed
Loop ==
    /\ rafPending > 0
    /\ loopLog.runs < MaxTicks
    /\ loop(canvas, rafPending - 1)
    /\ UNCHANGED <<callVars, guiVars>>

\* Number.prototype.toFixed(3) of a value: the sign and the digits before
\* and after the decimal point
toFixed3(v) ==
    [negative |-> v < 0,
     whole |-> Abs(v) \div 1000,
     decimals |-> << (Abs(v) \div 100) % 10, (Abs(v) \div 10) % 10,
                     Abs(v) % 10 >>]

\* the value of a cell, were the mask left out
exportValueUnmasked(cfg, x, y) ==
    LET nx == (x * 1000) \div cfg.scale
        ny == (y * 1000) \div cfg.scale
    IN  normalized(cfg, nx, ny + cfg.time, cfg.seed)
\* exports.js:33-36: the value of the cell of pixel (x, y)
exportValue(cfg, x, y) ==
    LET nx == (x * 1000) \div cfg.scale
        ny == (y * 1000) \div cfg.scale
    IN  applyMask(cfg, x, y, normalized(cfg, nx, ny + cfg.time, cfg.seed))

\* exports.js:27-41: the text of exportMap() as the sequence of its cells
\* in the order they are appended, each with its value before formatting,
\* its text and the separator after it
exportMap(cfg) ==
    [i \in 1..(cfg.width * cfg.height) |->
        LET x == (i - 1) % cfg.width
            y == (i - 1) \div cfg.width
            value == exportValue(cfg, x, y)
        IN  [value |-> value,
             text |-> toFixed3(value),
             sep |-> IF x = cfg.width - 1 THEN "\n" ELSE ","]]

\* exports.js:70: a click on the downloadMap button, once the page is set up
ExportMap ==
    /\ frame.drawn
    /\ exported' = [done |-> TRUE, cfg |-> config, map |-> exportMap(config),
                    shown |-> frame]
    /\ UNCHANGED <<config, callVars, drawVars, timerVars, guiLog,
                   presetStore, walker>>

DrawNext == InitializeApp \/ Regenerate \/ Loop \/ ExportMap

SpecDraw == DrawInit /\ [][DrawNext]_vars

---------------------------------------------------------------------------
(* The controls of the GUI and the timer of debouncedDraw. *)

\* config.js:181-186: markAsCustom
markAsCustom(cfg) ==
    IF cfg.currentPreset # "Custom"
    THEN [cfg EXCEPT !.currentPreset = "Custom"]
    ELSE cfg

\* debouncedDraw(), were it to arm a timer without clearing the pending one
debouncedDrawNoClear ==
    /\ drawTimeout' = 1
    /\ timer' = [timer EXCEPT !.pending = @ + 1, !.left = TimerDelay,
                              !.since = 0, !.calls = @ + 1]
\* utils.js:83-86: debouncedDraw(): clearTimeout takes the pending timer
\* from the browser, setTimeout hands it a new one of TimerDelay ms
debouncedDraw ==
    /\ drawTimeout' = 1
    /\ timer' = [timer EXCEPT
                   !.pending = (IF drawTimeout # 0 THEN @ - 1 ELSE @) + 1,
                   !.left = TimerDelay, !.since = 0, !.calls = @ + 1]

\* the onChange handler of a control that has stored cfg into config,
\* the presets object being left as store: markAsCustom(), then
\* debouncedDraw(); MaxOps operations of the GUI are followed
editWith(name, cfg, store) ==
    /\ guiLog.count < MaxOps
    /\ config' = markAsCustom(cfg)
    /\ presetStore' = store
    /\ debouncedDraw
    /\ guiLog' = [count |-> guiLog.count + 1, last |-> name]
    /\ UNCHANGED <<callVars, drawVars, exported, walker>>

\* the presets object after a write into the array config.thresholds is,
\* which leaves it holding stops: the preset that shares the array holds
\* them too
written(stops) ==
    IF presetStore.shared = "none"
    THEN presetStore
    ELSE [presetStore EXCEPT !.presets[presetStore.shared].thresholds = stops]

\* the onChange handler of a control that has written cfg into config and
\* into the array of config.thresholds
edit(name, cfg) == editWith(name, cfg, written(cfg.thresholds))

\* config.js:425-430: the Multi-Octave checkbox
ToggleOctaves == edit("octaves", [config EXCEPT !.octaves = ~config.octaves])

\* the seeds the Random Seed slider is moved to
GuiSeeds == {0, 3}

\* config.js:405-410: the Random Seed slider
SetSeed ==
    \E s \in GuiSeeds \ {config.seed} :
        edit("seed", [config EXCEPT !.seed = s])

\* utils.js:85: a timer of debouncedDraw fires and runs draw()
DrawTimer ==
    /\ timer.pending > 0
    /\ put(draw(config, canvas))
    /\ UNCHANGED <<presetStore, walker>>
    /\ drawTimeout' = 0
    /\ timer' = [timer EXCEPT !.pending = @ - 1, !.calls = 0,
                              !.fired = TRUE, !.waited = timer.since]
    /\ UNCHANGED <<config, animationId, rafPending, loopLog, callVars,
                   exported, guiLog>>

---------------------------------------------------------------------------
(* The noise functions on their own: calls of rawPerlin and perlin at the *)
(* coordinates of NoiseCoords with the seeds of NoiseSeeds, two calls in  *)
(* a run, while the Multi-Octave checkbox and the Random Seed slider       *)
(* change the configuration in between.                                   *)

NoiseCoords == {0 - 700, 0, 300, 1250}
NoiseSeeds == {0, 3}

NoiseInit ==
    /\ config = DefaultConfig
    /\ IdleCalls
    /\ IdleCanvas
    /\ IdleGui

\* one call rawPerlin(x, y, seed)
CallRawPerlin ==
    /\ ~noisePrev.called
    /\ \E x \in NoiseCoords, y \in NoiseCoords, seed \in NoiseSeeds :
          noiseCall' = [called |-> TRUE, fn |-> "rawPerlin", x |-> x, y |-> y,
                        seed |-> seed, octaves |-> config.octaves,
                        ops |-> guiLog.count,
                        result |-> rawPerlin(x, y, seed),
                        unit |-> (rawPerlin(x, y, seed) + 1000) \div 2]
    /\ noisePrev' = noiseCall
    /\ UNCHANGED <<config, colorCall, maskCall, maskPrev, drawVars, guiVars,
                   presetCall>>

\* one call perlin(x, y, seed), which reads config.octaves, and the value
\* (perlin(x, y, seed) + 1) / 2 the renderer makes of it
CallPerlin ==
    /\ ~noisePrev.called
    /\ \E x \in NoiseCoords, y \in NoiseCoords, seed \in NoiseSeeds :
          noiseCall' = [called |-> TRUE, fn |-> "perlin", x |-> x, y |-> y,
                        seed |-> seed, octaves |-> config.octaves,
                        ops |-> guiLog.count,
                        result |-> perlin(config, x, y, seed),
                        unit |-> normalized(config, x, y, seed)]
    /\ noisePrev' = noiseCall
    /\ UNCHANGED <<config, colorCall, maskCall, maskPrev, drawVars, guiVars,
                   presetCall>>

\* the runs stay within the 50 ms of the timer of debouncedDraw
NoiseNext == CallRawPerlin \/ CallPerlin \/ ToggleOctaves \/ SetSeed

SpecNoise == NoiseInit /\ [][NoiseNext]_vars

---------------------------------------------------------------------------
(* The presets and the operations of the GUI on the configuration. *)

\* config.js:117-118: applyPreset(name) gets past `if (!preset) return`:
\* presets[name] is a preset of the table or, for a name of
\* Object.prototype, the property every object inherits
found(name) ==
    name \in DOMAIN presetStore.presets \/ name \in ObjectPrototype

\* config.js:126-134: applyPreset(name) gets past the copy of the
\* thresholds, to updateGUIFromConfig, rebuildThresholdGUI and draw():
\* JSON.parse throws on the undefined thresholds of an inherited property
completes(name) == name \in DOMAIN presetStore.presets

\* the array config.thresholds is, were applyPreset to assign
\* preset.thresholds itself
copiedByReference(name) == name
\* config.js:126: the array config.thresholds is after
\* JSON.parse(JSON.stringify(preset.thresholds)): one of its own
copied(name) == "none"

\* applyPreset, were it to take octaves, shading and smoothing from the
\* presets that give them
applyPresetAllGiven(cfg, name) ==
    IF ~found(name) THEN cfg
    ELSE IF ~completes(name)
    THEN [cfg EXCEPT !.scale = Undefined, !.seed = Undefined,
                     !.mask = TRUE, !.maskShape = "circle",
                     !.maskContrast = 4000]
    ELSE LET preset == presetStore.presets[name]
         IN  [cfg EXCEPT
                !.scale = preset.scale,
                !.seed = preset.seed,
                !.mask = IF "mask" \in preset.given
                         THEN preset.mask ELSE TRUE,
                !.maskShape = IF "maskShape" \in preset.given
                              THEN preset.maskShape ELSE "circle",
                !.maskContrast = IF "maskContrast" \in preset.given
                                 THEN preset.maskContrast ELSE 4000,
                !.octaves = IF "octaves" \in preset.given
                            THEN preset.octaves ELSE @,
                !.shading = IF "shading" \in preset.given
                            THEN preset.shading ELSE @,
                !.smoothing = IF "smoothing" \in preset.given
                              THEN preset.smoothing ELSE @,
                !.thresholds = preset.thresholds,
                !.currentPreset = name]
\* config.js:116-128: the assignments of applyPreset(name): none for a
\* name presets has no property of; those before the copy of the
\* thresholds for a name of Object.prototype, whose scale, seed, mask,
\* maskShape, maskContrast and thresholds are undefined; all of them for a
\* preset of the table
applyPreset(cfg, name) ==
    IF ~found(name) THEN cfg
    ELSE IF ~completes(name)
    THEN [cfg EXCEPT !.scale = Undefined, !.seed = Undefined,
                     !.mask = TRUE, !.maskShape = "circle",
                     !.maskContrast = 4000]
    ELSE LET preset == presetStore.presets[name]
         IN  [cfg EXCEPT
                !.scale = preset.scale,
                !.seed = preset.seed,
                !.mask = IF "mask" \in preset.given
                         THEN preset.mask ELSE TRUE,
                !.maskShape = IF "maskShape" \in preset.given
                              THEN preset.maskShape ELSE "circle",
                !.maskContrast = IF "maskContrast" \in preset.given
                                 THEN preset.maskContrast ELSE 4000,
                !.thresholds = preset.thresholds,
                !.currentPreset = name]

\* the record of a call of applyPreset(name) on cfg
called(cfg, name) ==
    [called |-> TRUE, name |-> name, before |-> cfg,
     after |-> applyPreset(cfg, name),
     rebuilt |-> completes(name), drew |-> completes(name)]

\* config.js:386-394: the Terrain Preset selector stores the chosen option
\* into config.currentPreset and runs applyPreset unless it is 'Custom';
\* applyPreset ends with draw() (config.js:131-134), the setValue calls of
\* updateGUIFromConfig being taken to refresh the controls only
SelectPreset ==
    /\ guiLog.count < MaxOps
    /\ \E name \in DOMAIN presetStore.presets \cup {"Custom"} :
          LET chosen == [config EXCEPT !.currentPreset = name]
          IN  IF name # "Custom"
              THEN /\ config' = applyPreset(chosen, name)
                   /\ put(draw(applyPreset(chosen, name), canvas))
                   /\ presetStore' =
                         [presetStore EXCEPT !.shared = copied(name)]
                   /\ presetCall' = called(chosen, name)
              ELSE /\ config' = chosen
                   /\ UNCHANGED <<canvasVars, presetStore, presetCall>>
    /\ guiLog' = [count |-> guiLog.count + 1, last |-> "preset"]
    /\ UNCHANGED <<animationId, rafPending, loopLog, colorCall, maskCall,
                   maskPrev, noiseCall, noisePrev, exported, timerVars,
                   walker>>

\* the names applyPreset is called with from outside the selector: those
\* of the table, 'Custom', a name no object has a property of, and those
\* of ObjectPrototype
CallNames ==
    DOMAIN presetStore.presets \cup {"Custom", "Atlantis"}
       \cup ObjectPrototype

\* config.js:116-135: a call of config.applyPreset(name)
ApplyPreset ==
    /\ guiLog.count < MaxOps
    /\ \E name \in CallNames :
          /\ config' = applyPreset(config, name)
          /\ presetCall' = called(config, name)
          /\ IF completes(name)
             THEN /\ put(draw(applyPreset(config, name), canvas))
                  /\ presetStore' =
                        [presetStore EXCEPT !.shared = copied(name)]
             ELSE UNCHANGED <<canvasVars, presetStore>>
    /\ guiLog' = [count |-> guiLog.count + 1, last |-> "applyPreset"]
    /\ UNCHANGED <<animationId, rafPending, loopLog, colorCall, maskCall,
                   maskPrev, noiseCall, noisePrev, exported, timerVars,
                   walker>>

\* Math.random() as a stream of draws in [0, 1): draw k of the stream st
random(st, k) == (st.start + k * st.step) % 1000

\* the streams randomizeTerrain is run with: all draws 0, all draws 0.999,
\* all draws 0.4, and draws that differ from one to the next
RandomStreams ==
    { [start |-> 0, step |-> 0], [start |-> 999, step |-> 0],
      [start |-> 400, step |-> 0], [start |-> 500, step |-> 143] }

\* Math.floor(Math.random() * n) for draw r
randomBelow(r, n) == (r * n) \div 1000

\* config.js:214-241: hslToHex(h, s, l), the colour as six hex digits
hslToHex(h, s, l) ==
    LET sT == s * 10
        lT == l * 10
        c == Mul(1000 - Abs(2 * lT - 1000), sT)
        x == Mul(c, 1000 - Abs((((h * 1000) \div 60) % 2000) - 1000))
        m == lT - c \div 2
        rgb1 == IF h < 60 THEN <<c, x, 0>>
                ELSE IF h < 120 THEN <<x, c, 0>>
                ELSE IF h < 180 THEN <<0, c, x>>
                ELSE IF h < 240 THEN <<0, x, c>>
                ELSE IF h < 300 THEN <<x, 0, c>>
                ELSE IF h < 360 THEN <<c, 0, x>>
                ELSE <<0, 0, 0>>
        byte(v) == Round((v + m) * 255, 1000)
        r == byte(rgb1[1])
        g == byte(rgb1[2])
        b == byte(rgb1[3])
    IN  << r \div 16, r % 16, g \div 16, g % 16, b \div 16, b % 16 >>

\* Array.prototype.sort by threshold (stable): s with the stop e put in
\* after the last stop whose threshold is not above that of e
RECURSIVE insertStop(_, _)
insertStop(sorted, e) ==
    IF sorted = <<>> THEN <<e>>
    ELSE IF sorted[Len(sorted)].threshold <= e.threshold
         THEN Append(sorted, e)
         ELSE Append(insertStop(SubSeq(sorted, 1, Len(sorted) - 1), e),
                     sorted[Len(sorted)])

\* config.js:256: config.thresholds.sort((a, b) => a.threshold - b.threshold)
RECURSIVE sortStops(_)
sortStops(stops) ==
    IF stops = <<>> THEN <<>>
    ELSE insertStop(sortStops(SubSeq(stops, 1, Len(stops) - 1)),
                    stops[Len(stops)])

\* config.js:243-253: layer i (from 0) of layerCount, from its three draws
randomLayer(st, i, layerCount) ==
    Stop(Div(1000 * (i + 1), 1000 * layerCount),
         hslToHex(randomBelow(random(st, 8 + 3 * i), 360),
                  randomBelow(random(st, 9 + 3 * i), 60) + 40,
                  randomBelow(random(st, 10 + 3 * i), 50) + 25))

\* randomizeTerrain, were its layers spread from 0: thresholds i / layerCount
randomizeTerrainFromZero(cfg, st) ==
    LET layerCount == randomBelow(random(st, 7), 3) + 4
    IN  markAsCustom(
          [cfg EXCEPT
             !.scale = randomBelow(random(st, 0), 150) + 20,
             !.seed = randomBelow(random(st, 1), 100),
             !.speed = Mul(random(st, 2), 20),
             !.grayscale = FALSE,
             !.octaves = TRUE,
             !.smoothing = random(st, 3) < 600,
             !.shading = TRUE,
             !.mask = random(st, 4) < 700,
             !.maskShape = << "circle", "square", "hexagon" >>
                             [randomBelow(random(st, 5), 3) + 1],
             !.maskContrast = 2 * random(st, 6) + 1500,
             !.thresholds =
                sortStops([i \in 1..layerCount |->
                             Stop(Div(1000 * (i - 1), 1000 * layerCount),
                                  randomLayer(st, i - 1, layerCount).color)])])
\* config.js:192-259: the assignments of randomizeTerrain() and its
\* markAsCustom(), with the draws of the stream st
randomizeTerrain(cfg, st) ==
    LET layerCount == randomBelow(random(st, 7), 3) + 4
    IN  markAsCustom(
          [cfg EXCEPT
             !.scale = randomBelow(random(st, 0), 150) + 20,
             !.seed = randomBelow(random(st, 1), 100),
             !.speed = Mul(random(st, 2), 20),
             !.grayscale = FALSE,
             !.octaves = TRUE,
             !.smoothing = random(st, 3) < 600,
             !.shading = TRUE,
             !.mask = random(st, 4) < 700,
             !.maskShape = << "circle", "square", "hexagon" >>
                             [randomBelow(random(st, 5), 3) + 1],
             !.maskContrast = 2 * random(st, 6) + 1500,
             !.thresholds =
                sortStops([i \in 1..layerCount |->
                             randomLayer(st, i - 1, layerCount)])])

\* config.js:336-337: the Randomize Terrain button; randomizeTerrain ends
\* with debouncedDraw()
RandomizeTerrain ==
    \E st \in RandomStreams :
        editWith("randomize", randomizeTerrain(config, st),
                 [presetStore EXCEPT !.shared = "none"])

\* the addLayer button, were the new layer to start at 0.5
addLayerMidway(cfg) ==
    markAsCustom([cfg EXCEPT
                    !.thresholds = Append(cfg.thresholds, Stop(500, White))])
\* config.js:302-304: the assignments of the addLayer button
addLayer(cfg) ==
    markAsCustom([cfg EXCEPT
                    !.thresholds = Append(cfg.thresholds, Stop(1000, White))])

\* config.js:301-308: the addLayer button; lists of up to MaxLayers layers
\* are followed
AddLayer ==
    /\ Len(config.thresholds) < MaxLayers
    /\ edit("addLayer", addLayer(config))

\* the removeLayer button, were it to pop whatever the length is
removeLayerUnguarded(cfg) ==
    markAsCustom([cfg EXCEPT
                    !.thresholds = SubSeq(cfg.thresholds, 1,
                                          Len(cfg.thresholds) - 1)])
\* config.js:311-314: the assignments of the removeLayer button
removeLayer(cfg) ==
    IF Len(cfg.thresholds) > 1
    THEN markAsCustom([cfg EXCEPT
                         !.thresholds = SubSeq(cfg.thresholds, 1,
                                               Len(cfg.thresholds) - 1)])
    ELSE cfg

\* config.js:310-319: the removeLayer button; debouncedDraw() is run only
\* when a layer was removed
RemoveLayer ==
    /\ guiLog.count < MaxOps
    /\ config' = removeLayer(config)
    /\ presetStore' = written(removeLayer(config).thresholds)
    /\ IF Len(config.thresholds) > 1
       THEN debouncedDraw
       ELSE UNCHANGED timerVars
    /\ guiLog' = [count |-> guiLog.count + 1, last |-> "removeLayer"]
    /\ UNCHANGED <<callVars, drawVars, exported, walker>>

\* the layers whose controls are operated: the first and the last
EditLayers(stops) == {1, Len(stops)} \cap DOMAIN stops
\* the values a threshold slider is moved to
EditThresholds == {0, 500}
\* the colours a colour picker is set to
EditColors == {Black}

\* config.js:286-289: the threshold slider of a layer
SetThreshold ==
    \E i \in EditLayers(config.thresholds) :
        \E t \in EditThresholds \ {config.thresholds[i].threshold} :
            edit("threshold", [config EXCEPT !.thresholds[i].threshold = t])

\* config.js:292-295: the colour picker of a layer
SetColor ==
    \E i \in EditLayers(config.thresholds) :
        \E c \in EditColors \ {config.thresholds[i].color} :
            edit("color", [config EXCEPT !.thresholds[i].color = c])

---------------------------------------------------------------------------
(* The GUI on its own: a canvas of one pixel, the layer list as           *)
(* removeLayer leaves the Island list after 0 to 6 clicks, and then       *)
(* MaxOps operations of the preset selector, the randomize button, the    *)
(* layer buttons and the layer controls, with the timer of debouncedDraw. *)

ConfigInit ==
    /\ \E n \in 1..Len(IslandThresholds) :
          config = IF n = Len(IslandThresholds)
                   THEN [DefaultConfig EXCEPT !.width = 1, !.height = 1]
                   ELSE [DefaultConfig EXCEPT
                           !.width = 1, !.height = 1,
                           !.thresholds = SubSeq(IslandThresholds, 1, n),
                           !.currentPreset = "Custom"]
    /\ IdleCalls
    /\ IdleCanvas
    /\ IdleGui

ConfigNext ==
    \/ SelectPreset
    \/ RandomizeTerrain
    \/ AddLayer
    \/ RemoveLayer
    \/ SetThreshold
    \/ SetColor
    \/ DrawTimer

SpecConfig == ConfigInit /\ [][ConfigNext]_vars

---------------------------------------------------------------------------
(* The layer list without its sliders: the page after the preset selector *)
(* has been set to any of the presets (Island is the page as loaded),     *)
(* then MaxOps operations of the preset selector, the randomize button    *)
(* and the layer buttons, with the timer of debouncedDraw.                *)

LayersInit ==
    /\ IdleCalls
    /\ IdleGui
    /\ \E name \in PresetNames :
          /\ config = applyPreset([DefaultConfig EXCEPT
                                     !.width = 1, !.height = 1], name)
          /\ frame = drawFrame(config)
          /\ data = drawData(config, frame)
    /\ prevDraw = NoDraw
    /\ animationId = 0
    /\ rafPending = 0
    /\ loopLog = NoLoop

LayersNext ==
    \/ SelectPreset
    \/ RandomizeTerrain
    \/ AddLayer
    \/ RemoveLayer
    \/ DrawTimer

SpecLayers == LayersInit /\ [][LayersNext]_vars

---------------------------------------------------------------------------
(* debouncedDraw in time: the Random Seed slider and the Multi-Octave     *)
(* checkbox call it, the clock moves on in steps of up to TickMs ms while *)
(* a timer is pending, and the timer fires when its delay has passed.     *)

DebounceInit ==
    /\ \E w \in {1, CanvasDim}, m \in BOOLEAN, sh \in BOOLEAN :
          config = [DefaultConfig EXCEPT
                      !.width = w, !.height = 1, !.scale = 10, !.seed = 3,
                      !.mask = m, !.shading = sh]
    /\ IdleCalls
    /\ IdleCanvas
    /\ IdleGui

\* time passes, up to the moment the pending timer is due
Tick ==
    /\ timer.pending > 0
    /\ timer.left > 0
    /\ timer' = [timer EXCEPT
                   !.left = @ - Min(TickMs, timer.left),
                   !.since = Min(TimerDelay, @ + Min(TickMs, timer.left))]
    /\ UNCHANGED <<config, callVars, drawVars, exported, drawTimeout, guiLog,
                   presetStore, walker>>

\* the delay of the pending timer has passed: the browser runs it
TimerDue ==
    /\ timer.left = 0
    /\ DrawTimer

DebounceNext ==
    \/ SetSeed
    \/ ToggleOctaves
    \/ Tick
    \/ TimerDue

\* TimerDue can be taken: a timer is pending and its delay has passed
timerIsDue == timer.pending > 0 /\ timer.left = 0

\* a browser lets time pass and runs the timer that is due: weak fairness
\* of Tick and of TimerDue, the latter with its enabling condition
\* written out
SpecDebounce ==
    /\ DebounceInit
    /\ [][DebounceNext]_vars
    /\ WF_vars(Tick)
    /\ ([]<>(~timerIsDue) \/ []<><<TimerDue>>_vars)

---------------------------------------------------------------------------
(* applyPreset and the presets object: the island generator or the        *)
(* terrain generator as loaded, on a canvas of one pixel, then MaxOps     *)
(* calls of applyPreset and operations of the preset selector, the        *)
(* randomize button (of the island generator), the layer buttons and the  *)
(* layer controls.  The runs stay within the 50 ms of the timer of        *)
(* debouncedDraw.                                                         *)

PresetInit ==
    /\ \E page \in {"island", "terrain"} :
          IF page = "island"
          THEN /\ config = [DefaultConfig EXCEPT !.width = 1, !.height = 1]
               /\ presetStore = IslandStore
          ELSE /\ config = TerrainConfig
               /\ presetStore = TerrainStore
    /\ IdleCalls
    /\ IdleCanvas
    /\ exported = NoExport
    /\ drawTimeout = 0
    /\ timer = NoTimer
    /\ guiLog = NoGui
    /\ walker = NoWalker

\* config.js:336-337: the randomize button, which the terrain generator
\* does not have
RandomizeIsland ==
    /\ presetStore.page = "island"
    /\ RandomizeTerrain

PresetNext ==
    \/ ApplyPreset
    \/ SelectPreset
    \/ RandomizeIsland
    \/ AddLayer
    \/ RemoveLayer
    \/ SetThreshold
    \/ SetColor

SpecPreset == PresetInit /\ [][PresetNext]_vars

---------------------------------------------------------------------------
(* The animation loop switched off and on: initializeApp, the frame       *)
(* callbacks, and MaxOps calls of stopAnimation and startAnimation.       *)

AnimInit ==
    /\ \E sp \in DrawSpeeds, oc \in BOOLEAN, sh \in BOOLEAN, m \in BOOLEAN :
          config = [DefaultConfig EXCEPT
                      !.width = 1, !.height = 1, !.scale = 10, !.seed = 3,
                      !.speed = sp, !.octaves = oc, !.shading = sh,
                      !.mask = m]
    /\ IdleCalls
    /\ IdleCanvas
    /\ IdleGui

\* startAnimation(), were it to run loop() whether a frame is scheduled
\* or not
startAnimationUnguarded(cv, held) ==
    loop(cv, held)
\* app.js:44-48: startAnimation() on the canvas cv while the browser holds
\* `held` frame callbacks
startAnimation(cv, held) ==
    IF animationId = 0
    THEN loop(cv, held)
    ELSE UNCHANGED <<config, canvasVars, animationId, rafPending, loopLog>>

\* app.js:44-48: a call of startAnimation() once the page is set up
StartAnimation ==
    /\ loopLog.runs \in 1..(MaxTicks - 1)
    /\ guiLog.count < MaxOps
    /\ startAnimation(canvas, rafPending)
    /\ guiLog' = [count |-> guiLog.count + 1, last |-> "startAnimation"]
    /\ UNCHANGED <<callVars, exported, timerVars, presetStore, walker>>

\* app.js:34-39: a call of stopAnimation() once the page is set up:
\* cancelAnimationFrame takes the callback of the handle from the browser
StopAnimation ==
    /\ loopLog.runs >= 1
    /\ guiLog.count < MaxOps
    /\ IF animationId # 0
       THEN /\ rafPending' = IF rafPending > 0 THEN rafPending - 1 ELSE 0
            /\ animationId' = 0
       ELSE UNCHANGED <<animationId, rafPending>>
    /\ guiLog' = [count |-> guiLog.count + 1, last |-> "stopAnimation"]
    /\ UNCHANGED <<config, canvasVars, loopLog, callVars, exported,
                   timerVars, presetStore, walker>>

AnimNext ==
    \/ InitializeApp
    \/ Loop
    \/ StartAnimation
    \/ StopAnimation

SpecAnim == AnimInit /\ [][AnimNext]_vars

---------------------------------------------------------------------------
(* The random walker sketch (src/gaussian-walker): one Walker on a canvas *)
(* of a few pixels, constructed and then stepped MaxSteps times.          *)
(* Positions and velocities are in thousandths of a pixel.  The factor    *)
(* Math.sqrt(-2 * Math.log(u)) * Math.cos(2 * Math.PI * v) of             *)
(* randomGaussian, a standard normal draw that two draws of Math.random() *)
(* in (0, 1) keep within about 8.6 in size, is one of GaussianDraws.      *)

\* arithmetic on doubles of which any may be NaN; an undefined operand
\* makes NaN too
isNaN(v) == v = NaN \/ v = Undefined
plus(a, b) == IF isNaN(a) \/ isNaN(b) THEN NaN ELSE a + b
times(a, b) == IF isNaN(a) \/ isNaN(b) THEN NaN ELSE Mul(a, b)
mathMin(a, b) == IF isNaN(a) \/ isNaN(b) THEN NaN ELSE Min(a, b)
mathMax(a, b) == IF isNaN(a) \/ isNaN(b) THEN NaN ELSE Max(a, b)

\* the values of the standard normal factor of randomGaussian
GaussianDraws == {0 - 8600, 500, 8600}

\* the canvases: window.innerWidth by window.innerHeight (index.js:5-8)
WalkerCanvases == {<<8000, 6000>>, <<0, 0>>}
\* randomRange(settings.speedMin, settings.speedMax), the sliders being
\* within 1..15 (index.js:212-213, config.js:2)
WalkerSpeeds == {1000, 6000}
\* randomRange(settings.jitterMin, settings.jitterMax), within 0..5
WalkerJitters == {0, 1500}
\* randomRange(settings.driftMin, settings.driftMax), within -1..1
WalkerDrifts == {0 - 150, 1000}

\* random-walker.js:20-25: randomGaussian(mean, std) with the standard
\* normal factor z
randomGaussian(mean, std, z) == plus(times(z, std), mean)

\* random-walker.js:2-18: new Walker() on a canvas of cw by ch: vx and vy
\* are drawn by randomGaussian() while this.drift and this.jitter are not
\* assigned yet
newWalker(cw, ch, speed, jitter, drift, z1, z2) ==
    [made |-> TRUE, cw |-> cw, ch |-> ch,
     x |-> cw \div 2, y |-> ch \div 2,
     vx |-> randomGaussian(Undefined, Undefined, z1),
     vy |-> randomGaussian(Undefined, Undefined, z2),
     lastX |-> cw \div 2, lastY |-> ch \div 2,
     speed |-> speed, jitter |-> jitter, drift |-> drift, steps |-> 0]

\* step(), were the reset of NaN positions left out
stepNoReset(w, z1, z2) ==
    LET vx1 == plus(w.vx, times(randomGaussian(w.drift, w.jitter, z1), 200))
        vy1 == plus(w.vy, times(randomGaussian(w.drift, w.jitter, z2), 200))
        vx2 == mathMax(0 - w.speed, mathMin(w.speed, vx1))
        vy2 == mathMax(0 - w.speed, mathMin(w.speed, vy1))
        x1 == plus(w.x, vx2)
        y1 == plus(w.y, vy2)
    IN  [w EXCEPT
           !.lastX = w.x, !.lastY = w.y,
           !.x = x1, !.y = y1,
           !.vx = IF ~isNaN(x1) /\ (x1 < 0 \/ x1 > w.cw)
                  THEN times(vx2, 0 - 1000) ELSE vx2,
           !.vy = IF ~isNaN(y1) /\ (y1 < 0 \/ y1 > w.ch)
                  THEN times(vy2, 0 - 1000) ELSE vy2,
           !.steps = @ + 1]
\* random-walker.js:27-47: step() with the standard normal factors z1, z2
\* of its two calls of randomGaussian(); a comparison with NaN is false
step(w, z1, z2) ==
    LET vx1 == plus(w.vx, times(randomGaussian(w.drift, w.jitter, z1), 200))
        vy1 == plus(w.vy, times(randomGaussian(w.drift, w.jitter, z2), 200))
        vx2 == mathMax(0 - w.speed, mathMin(w.speed, vx1))
        vy2 == mathMax(0 - w.speed, mathMin(w.speed, vy1))
        x1 == plus(w.x, vx2)
        y1 == plus(w.y, vy2)
        reset == isNaN(x1) \/ isNaN(y1)
        x2 == IF reset THEN w.cw \div 2 ELSE x1
        y2 == IF reset THEN w.ch \div 2 ELSE y1
        vx3 == IF reset THEN 0 ELSE vx2
        vy3 == IF reset THEN 0 ELSE vy2
    IN  [w EXCEPT
           !.lastX = w.x, !.lastY = w.y,
           !.x = x2, !.y = y2,
           !.vx = IF x2 < 0 \/ x2 > w.cw THEN times(vx3, 0 - 1000) ELSE vx3,
           !.vy = IF y2 < 0 \/ y2 > w.ch THEN times(vy3, 0 - 1000) ELSE vy3,
           !.steps = @ + 1]

WalkerInit ==
    /\ config = DefaultConfig
    /\ IdleCalls
    /\ IdleCanvas
    /\ IdleGui

\* index.js:47-49: createWalkers() constructs a Walker
NewWalker ==
    /\ ~walker.made
    /\ \E c \in WalkerCanvases, speed \in WalkerSpeeds,
          jitter \in WalkerJitters, drift \in WalkerDrifts,
          z1 \in GaussianDraws, z2 \in GaussianDraws :
          walker' = newWalker(c[1], c[2], speed, jitter, drift, z1, z2)
    /\ UNCHANGED <<config, callVars, drawVars, exported, timerVars, guiLog,
                   presetStore>>

\* index.js:72: animate() runs update(), that is step(), on the walker;
\* MaxSteps steps are followed
Step ==
    /\ walker.made
    /\ walker.steps < MaxSteps
    /\ \E z1 \in GaussianDraws, z2 \in GaussianDraws :
          walker' = step(walker, z1, z2)
    /\ UNCHANGED <<config, callVars, drawVars, exported, timerVars, guiLog,
                   presetStore>>

WalkerNext == NewWalker \/ Step

SpecWalker == WalkerInit /\ [][WalkerNext]_vars

---------------------------------------------------------------------------
(* draw() as a function of whatever the configuration object holds: the   *)
(* configurations of RenderInit, among them ones with no colour stop,     *)
(* which no control of the GUI leads to, and runs of draw().              *)

RenderInit ==
    /\ \E w \in 1..CanvasDim, h \in 1..CanvasDim,
          gs \in BOOLEAN, sm \in BOOLEAN, sh \in BOOLEAN, m \in BOOLEAN,
          th \in {<<>>, IslandThresholds} :
          config = [DefaultConfig EXCEPT
                      !.width = w, !.height = h, !.scale = 10, !.seed = 3,
                      !.grayscale = gs, !.smoothing = sm, !.shading = sh,
                      !.mask = m, !.thresholds = th,
                      !.currentPreset = "Custom"]
    /\ IdleCalls
    /\ IdleCanvas
    /\ IdleGui

\* renderer.js:122-172: one run of draw()
Draw ==
    /\ put(draw(config, canvas))
    /\ UNCHANGED <<config, animationId, rafPending, loopLog, callVars,
                   guiVars>>

RenderNext == Draw

SpecRender == RenderInit /\ [][RenderNext]_vars

---------------------------------------------------------------------------
(* The page at work: initializeApp, the frames of the animation loop, the *)
(* Random Seed slider and the Multi-Octave checkbox, the timer of         *)
(* debouncedDraw and the downloadMap button, in any order.                *)

PageInit ==
    /\ \E sp \in DrawSpeeds, m \in BOOLEAN :
          config = [DefaultConfig EXCEPT
                      !.width = CanvasDim, !.height = CanvasDim,
                      !.scale = 10, !.seed = 3, !.speed = sp, !.mask = m]
    /\ IdleCalls
    /\ IdleCanvas
    /\ IdleGui

PageNext ==
    \/ InitializeApp
    \/ Loop
    \/ SetSeed
    \/ ToggleOctaves
    \/ DrawTimer
    \/ ExportMap

SpecPage == PageInit /\ [][PageNext]_vars

---------------------------------------------------------------------------
(* Claims about getColorForValue, checked under SpecColor. *)

\* the stops whose threshold is at least v
stopsAtLeast(stops, v) == {k \in 1..Len(stops) : stops[k].threshold >= v}

\* the least element of a non-empty set of indices
least(S) == CHOOSE k \in S : \A j \in S : k <= j

white255 == [r |-> 255, g |-> 255, b |-> 255]

\* C1: with smoothing off, or when the matched stop is the first of the
\* list, the result of getColorForValue is the colour of the first stop in
\* list order whose threshold is >= value, and white {255,255,255} when no
\* stop has threshold >= value (stops [{0.5,#ff0000}], value 0.9).
C1_SteppedColour ==
    LET stops == config.thresholds
        S == stopsAtLeast(stops, colorCall.value)
    IN  colorCall.called =>
          /\ S = {} => colorCall.result = white255
          /\ (S # {} /\ (~config.smoothing \/ least(S) = 1)) =>
                colorCall.result = hexToRgb(stops[least(S)].color)
          /\ (stops = <<Stop(500, Red)>> /\ colorCall.value = 900) =>
                colorCall.result = white255

\* a call with smoothing off that matches a later stop than the first,
\* whose colour differs from the colour of the stop before it
C1_Witness ==
    /\ colorCall.called
    /\ ~config.smoothing
    /\ colorCall.index > 1
    /\ config.thresholds[colorCall.index].color
         # config.thresholds[colorCall.index - 1].color
    /\ colorCall.result = hexToRgb(config.thresholds[colorCall.index].color)

\* c is the integer nearest to x / d (d > 0), a tie going up
nearest(c, x, d) == (2 * c - 1) * d <= 2 * x /\ 2 * x < (2 * c + 1) * d

\* the rounded linear interpolation of every channel at the matched stop
interpolatedAtMatch ==
    LET stops == config.thresholds
        i == colorCall.index
        a == hexToRgb(stops[i - 1].color)
        b == hexToRgb(stops[i].color)
        n == colorCall.value - stops[i - 1].threshold
        d == stops[i].threshold - stops[i - 1].threshold
    IN  /\ d > 0
        /\ nearest(colorCall.result.r, a.r * d + n * (b.r - a.r), d)
        /\ nearest(colorCall.result.g, a.g * d + n * (b.g - a.g), d)
        /\ nearest(colorCall.result.b, a.b * d + n * (b.b - a.b), d)

greyRamp == <<Stop(0, Black), Stop(1000, White)>>

\* C2 as stated: with smoothing on and matched stop i > 0 every channel is
\* the rounded linear interpolation between the colours of the previous and
\* the matched stop with ratio (value - prev) / (matched - prev), and stops
\* [{0.0,#000000},{1.0,#ffffff}] with value 0.5 give {127,127,127}.
C2_AsStated ==
    (colorCall.called /\ config.smoothing /\ colorCall.index > 1) =>
       /\ interpolatedAtMatch
       /\ (config.thresholds = greyRamp /\ colorCall.value = 500) =>
             colorCall.result = [r |-> 127, g |-> 127, b |-> 127]

\* C2 amended: the same interpolation, rounded by Math.round (a tie goes
\* up), so that stops [{0.0,#000000},{1.0,#ffffff}] with value 0.5 give
\* {128,128,128}: 127.5 rounds to 128.
C2_RoundedInterpolation ==
    (colorCall.called /\ config.smoothing /\ colorCall.index > 1) =>
       /\ interpolatedAtMatch
       /\ (config.thresholds = greyRamp /\ colorCall.value = 500) =>
             colorCall.result = [r |-> 128, g |-> 128, b |-> 128]

\* the call of the example: the grey ramp, smoothing on, value 0.5
C2_Witness ==
    /\ colorCall.called
    /\ config.smoothing
    /\ config.thresholds = greyRamp
    /\ colorCall.value = 500
    /\ colorCall.index = 2

channelOk(c) == c \in 0..255

\* C3: with smoothing on, whatever the stop list (two adjacent stops of
\* equal threshold, a list that is not ascending), whenever getColorForValue
\* interpolates, matchedThreshold - prevThreshold is strictly positive and
\* the ratio lies in (0, 1]; no call divides by zero and no channel of a
\* result is NaN or infinite.
C3_NoDivisionByZero ==
    colorCall.called =>
       /\ channelOk(colorCall.result.r)
       /\ channelOk(colorCall.result.g)
       /\ channelOk(colorCall.result.b)
       /\ (config.smoothing /\ colorCall.index > 1) =>
             /\ colorCall.den > 0
             /\ colorCall.num > 0
             /\ colorCall.num <= colorCall.den
             /\ colorCall.den =
                  config.thresholds[colorCall.index].threshold
                    - config.thresholds[colorCall.index - 1].threshold

\* an interpolating call whose matched stop follows two adjacent stops of
\* equal threshold
C3_Witness ==
    LET stops == config.thresholds
    IN  /\ colorCall.called
        /\ config.smoothing
        /\ colorCall.index = 3
        /\ stops[1].threshold = stops[2].threshold

---------------------------------------------------------------------------
(* Claims about applyMask, checked under SpecMask. *)

inUnit(v) == 0 <= v /\ v <= 1000

\* the square of twice the distance of pixel (x, y) from the centre, and of
\* twice the half-diagonal, in whole pixels
dist2(x, y) ==
    (2 * x - config.width) * (2 * x - config.width)
      + (2 * y - config.height) * (2 * y - config.height)
diag2 == config.width * config.width + config.height * config.height

\* C4 as stated: applyMask returns a result in [0,1] for every pixel, every
\* positive width and height, every input value (values outside [0,1]
\* included) and every mask configuration.
C4_AsStated == maskCall.called => inUnit(maskCall.result)

\* C4 amended: the result is in [0,1] for every input value when the mask
\* is enabled (shape circle, square or hexagon), and for every input value
\* in [0,1] when it is disabled.
C4_UnitRange ==
    (maskCall.called /\ (config.mask \/ inUnit(maskCall.value))) =>
       inUnit(maskCall.result)

\* an enabled mask clamps a value above 1 inside the shape
C4_Witness ==
    /\ maskCall.called
    /\ config.mask
    /\ maskCall.grad > 0
    /\ maskCall.value > 1000
    /\ maskCall.result = 1000

\* C5: with the mask disabled applyMask returns its input value unchanged,
\* for every pixel and every maskShape and maskContrast.
C5_DisabledIdentity ==
    (maskCall.called /\ ~config.mask) => maskCall.result = maskCall.value

\* a call with the mask disabled at a pixel the enabled mask would zero
C5_Witness ==
    /\ maskCall.called
    /\ ~config.mask
    /\ maskCall.grad <= 0
    /\ maskCall.value > 0
    /\ maskCall.result = maskCall.value

\* C6: with the mask enabled, for each shape, applyMask returns exactly 0
\* whenever the gradient g of the shape is <= 0, whatever the value and the
\* contrast; with the circle mask a pixel at distance >= the half-diagonal
\* from the centre yields 0.
C6_ZeroOutsideShape ==
    (maskCall.called /\ config.mask) =>
       /\ maskCall.grad <= 0 => maskCall.result = 0
       /\ (config.maskShape = "circle"
             /\ dist2(maskCall.x, maskCall.y) >= diag2) =>
                maskCall.result = 0

\* the corner pixel of a circle mask, at the half-diagonal from the centre,
\* with a value above 1
C6_Witness ==
    /\ maskCall.called
    /\ config.mask
    /\ config.maskShape = "circle"
    /\ dist2(maskCall.x, maskCall.y) >= diag2
    /\ maskCall.value > 1000
    /\ maskCall.result = 0

\* C7: circle mask, fixed value, maskContrast >= 1 and canvas size: a pixel
\* at least as far from the centre as another gets a result that is <= the
\* other's.
C7_CircleMonotone ==
    (/\ maskCall.called /\ maskPrev.called
     /\ config.mask /\ config.maskShape = "circle"
     /\ config.maskContrast >= 1000
     /\ maskCall.value = maskPrev.value
     /\ dist2(maskCall.x, maskCall.y) >= dist2(maskPrev.x, maskPrev.y))
       => maskCall.result <= maskPrev.result

\* two calls inside the island, the farther pixel getting strictly less
C7_Witness ==
    /\ maskCall.called /\ maskPrev.called
    /\ config.mask /\ config.maskShape = "circle"
    /\ maskCall.value = maskPrev.value
    /\ dist2(maskCall.x, maskCall.y) > dist2(maskPrev.x, maskPrev.y)
    /\ 0 < maskCall.result
    /\ maskCall.result < maskPrev.result

\* the contrast factor C8 states: maskContrast for the circle, 0.75 times
\* maskContrast for the square and the hexagon
statedContrast ==
    IF config.maskShape = "circle" THEN config.maskContrast
    ELSE (config.maskContrast * 750) \div 1000

\* C8: with the mask enabled and g > 0, applyMask computes p = value * g
\* and returns clamp01(p * c) when p > 0 and clamp01(p) (= 0) when p <= 0,
\* c being maskContrast for the circle and 0.75 * maskContrast for the
\* square and the hexagon.
C8_MaskFormula ==
    (maskCall.called /\ config.mask /\ maskCall.grad > 0) =>
       LET p == (maskCall.value * maskCall.grad) \div 1000
           pc == (p * statedContrast) \div 1000
       IN  /\ p > 0 => maskCall.result = Max(0, Min(1000, pc))
           /\ p <= 0 => maskCall.result = 0

\* a square-mask call inside the shape whose contrasted product is below 1
C8_Witness ==
    /\ maskCall.called
    /\ config.mask
    /\ config.maskShape = "square"
    /\ maskCall.grad > 0
    /\ maskCall.value > 0
    /\ 0 < maskCall.result
    /\ maskCall.result < 1000
    /\ maskCall.result > maskCall.value

---------------------------------------------------------------------------
(* Claims about the shading of draw(), checked under SpecDraw. *)

\* C9: with shading enabled, for every pixel and every value of
\* config.time, the second (offset) noise sample is taken with the same
\* time offset as the primary sample of the pixel: at (nx + 0.01,
\* ny + time + 0.01) where the primary sample is at (nx, ny + time).
C9_OffsetSampleSameTime ==
    (frame.drawn /\ frame.cfg.shading) =>
       \A p \in DOMAIN frame.px :
          frame.px[p].offsetAt =
             <<frame.px[p].sampleAt[1] + 10, frame.px[p].sampleAt[2] + 10>>

\* Math.min(255, Math.max(0, c)) on thousandths of a channel step
clamp255(c) == IF c < 0 THEN 0 ELSE IF c > 255000 THEN 255000 ELSE c

\* the byte b holds the channel c rounded to a whole number
roundedTo(b, c) == b \in 0..255 /\ 1000 * b - c <= 500 /\ c - 1000 * b <= 500

\* C10: with shading enabled the shading is applied after the colour
\* selection: shade = (masked value of the pixel) - (offset sample of the
\* raw fractal field, not passed through applyMask), each of r, g, b is
\* clamp(base + shade * 100, 0, 255), and so every shaded channel, and the
\* byte stored for it, lies in [0,255].
C10_ShadingAfterColour ==
    (frame.drawn /\ frame.cfg.shading) =>
       \A p \in DOMAIN frame.px :
          LET cfg == frame.cfg
              l == frame.px[p]
              picked == IF cfg.grayscale
                        THEN [r |-> l.value * 255, g |-> l.value * 255,
                              b |-> l.value * 255]
                        ELSE LET c == getColorForValue(cfg.thresholds,
                                                       cfg.smoothing, l.value)
                             IN  [r |-> 1000 * c.r, g |-> 1000 * c.g,
                                  b |-> 1000 * c.b]
              idx == (p[2] * cfg.width + p[1]) * 4
          IN  /\ l.value = applyMask(cfg, p[1], p[2], l.raw)
              /\ l.next = (perlin(cfg, l.offsetAt[1], l.offsetAt[2], cfg.seed)
                             + 1000) \div 2
              /\ l.shade = l.value - l.next
              /\ l.rgb.r = clamp255(picked.r + l.shade * 100)
              /\ l.rgb.g = clamp255(picked.g + l.shade * 100)
              /\ l.rgb.b = clamp255(picked.b + l.shade * 100)
              /\ roundedTo(data[idx], l.rgb.r)
              /\ roundedTo(data[idx + 1], l.rgb.g)
              /\ roundedTo(data[idx + 2], l.rgb.b)

\* a shaded frame in colour with the mask enabled, holding a pixel whose
\* offset sample the mask would change, with the green channel moved by the
\* shading and the red channel stopped by the clamp
C10_Witness ==
    /\ frame.drawn
    /\ frame.cfg.shading /\ frame.cfg.mask /\ ~frame.cfg.grayscale
    /\ \E p \in DOMAIN frame.px :
          LET l == frame.px[p]
          IN  /\ applyMask(frame.cfg, p[1], p[2], l.next) # l.next
              /\ l.shade # 0
              /\ l.rgb.g = l.base.g + l.shade * 100
              /\ l.rgb.r # l.base.r + l.shade * 100

---------------------------------------------------------------------------
(* Claims about the pixel buffer of draw(), checked under SpecDraw. *)

\* the byte index of pixel (x, y) in the buffer of the frame
byteIndex(x, y) == (y * frame.cfg.width + x) * 4

\* C11: after draw() the buffer holds four bytes for every pixel of the
\* canvas, row by row, the fourth (alpha) of every pixel is 255, and when
\* grayscale is on the first three bytes of every pixel are equal, with or
\* without mask and shading, and the colour before shading is the one an
\* empty colour-stop list gives as well: the list is not read
C11_OpaqueAndGrey ==
    frame.drawn =>
        /\ DOMAIN data = 0..(frame.cfg.width * frame.cfg.height * 4 - 1)
        /\ \A p \in pixels(frame.cfg) :
              LET idx == byteIndex(p[1], p[2])
                  l == frame.px[p]
              IN  /\ data[idx + 3] = 255
                  /\ data[idx] = toUint8Clamped(l.rgb.r)
                  /\ frame.cfg.grayscale =>
                        /\ data[idx] = data[idx + 1]
                        /\ data[idx + 1] = data[idx + 2]
                        /\ l.base = baseColor([frame.cfg EXCEPT
                                                 !.thresholds = <<>>],
                                              l.value)

\* a grayscale frame with mask and shading on, of more than one row and
\* column, with a grey strictly between black and white at a pixel whose
\* colour from the stops would not be a grey
C11_Witness ==
    /\ frame.drawn
    /\ frame.cfg.grayscale /\ frame.cfg.mask /\ frame.cfg.shading
    /\ frame.cfg.width > 1 /\ frame.cfg.height > 1
    /\ \E p \in pixels(frame.cfg) :
          LET c == getColorForValue(frame.cfg.thresholds,
                                    frame.cfg.smoothing, frame.px[p].value)
          IN  /\ data[byteIndex(p[1], p[2])] \in 1..254
              /\ c.r # c.g

C16_ExportMatchesDraw ==
    exported.done =>
        LET w == exported.cfg.width
            h == exported.cfg.height
        IN  /\ Len(exported.map) = w * h
            /\ \A x \in 0..(w - 1), y \in 0..(h - 1) :
                  LET cell == exported.map[y * w + x + 1]
                  IN  /\ cell.sep = (IF x = w - 1 THEN "\n" ELSE ",")
                      /\ cell.text = toFixed3(cell.value)
                      /\ (frame.drawn /\ frame.cfg = exported.cfg) =>
                            cell.value = frame.px[<<x, y>>].value

\* an export and a frame of one configuration, with the mask on, after
\* the time has advanced, of more than one row and column, with cells of
\* different values of which one strictly between 0 and 1
C16_Witness ==
    /\ exported.done /\ frame.drawn
    /\ frame.cfg = exported.cfg
    /\ exported.cfg.mask
    /\ exported.cfg.time > 0
    /\ exported.cfg.width > 1 /\ exported.cfg.height > 1
    /\ \E i, j \in DOMAIN exported.map :
          /\ exported.map[i].value # exported.map[j].value
          /\ exported.map[i].value \in 1..999

\* C17: every run of loop() adds config.speed to config.time, calls draw()
\* exactly when config.speed is above 0 and requests exactly one next
\* frame; while the speed is 0 a run of loop() leaves the time and the
\* canvas as they are
C17_LoopStep ==
    [][(loopLog'.runs = loopLog.runs + 1) =>
          /\ config'.time = config.time + config.speed
          /\ loopLog'.drew <=> (config.speed > 0)
          /\ loopLog'.requests = 1
          /\ rafPending' = 1 /\ animationId' # 0
          /\ (config.speed = 0 /\ frame.drawn) =>
                /\ config'.time = config.time
                /\ UNCHANGED <<frame, data, prevDraw>>]_vars

\* a frame callback has run loop() at speed 0: the time is where it was,
\* nothing was drawn by it and one frame is requested
C17_Witness ==
    /\ loopLog.runs >= 2
    /\ loopLog.speed = 0 /\ ~loopLog.drew
    /\ loopLog.after = loopLog.before
    /\ frame.drawn /\ frame.cfg.time = config.time
    /\ rafPending = 1

---------------------------------------------------------------------------
(* Claims about rawPerlin and perlin, checked under SpecNoise. *)

\* the last two calls are of one function with the same x, y and seed
sameNoiseArgs ==
    /\ noiseCall.called /\ noisePrev.called
    /\ noiseCall.fn = noisePrev.fn
    /\ noiseCall.x = noisePrev.x /\ noiseCall.y = noisePrev.y
    /\ noiseCall.seed = noisePrev.seed

\* C13 as stated: two calls of rawPerlin, or of perlin, with the same
\* x, y and seed return the same result whatever the controls changed in
\* between
C13_AsStated == sameNoiseArgs => noiseCall.result = noisePrev.result

\* C13: two calls of rawPerlin with the same x, y and seed return the same
\* result whatever the controls changed in between, and so do two calls of
\* perlin when config.octaves is the same at both
C13_SameOctavesSameNoise ==
    (/\ sameNoiseArgs
     /\ noiseCall.fn = "perlin" => noiseCall.octaves = noisePrev.octaves)
    => noiseCall.result = noisePrev.result

\* two calls of perlin with the same arguments and config.octaves on at
\* both, with a control operated in between, of a result other than 0
C13_Witness ==
    /\ sameNoiseArgs
    /\ noiseCall.fn = "perlin"
    /\ noiseCall.octaves /\ noisePrev.octaves
    /\ noiseCall.ops > noisePrev.ops
    /\ noiseCall.result # 0

\* C14: for every x, y and seed called with, and with config.octaves on or
\* off, (perlin(x, y, seed) + 1) / 2 lies in [0, 1]
C14_NormalizedInUnit ==
    (noiseCall.called /\ noiseCall.fn = "perlin") =>
        /\ noiseCall.unit \in 0..1000
        /\ noiseCall.unit = (noiseCall.result + 1000) \div 2

\* perlin has been called with octaves on and with octaves off, at a
\* negative coordinate, and the two values are in different halves of [0, 1]
C14_Witness ==
    /\ sameNoiseArgs
    /\ noiseCall.fn = "perlin"
    /\ noiseCall.octaves /\ ~noisePrev.octaves
    /\ noiseCall.x < 0
    /\ noiseCall.unit < 500 /\ noisePrev.unit > 500

\* the amplitude of octave i, 2^-i
octaveAmplitude(i) == 1000 \div (2 ^ i)

\* octave i of perlin(x, y, seed): rawPerlin at the coordinates times 2^i,
\* times the amplitude
octaveTerm(i, x, y, seed) ==
    Mul(rawPerlin(x * (2 ^ i), y * (2 ^ i), seed), octaveAmplitude(i))

\* C15: perlin sums one octave when config.octaves is off and four when it
\* is on; octave i adds rawPerlin(x * 2^i, y * 2^i, seed) * 2^-i, and the
\* sum is divided by the sum of the amplitudes, 1 or 1.875; with octaves
\* off perlin(x, y, seed) is rawPerlin(x, y, seed)
C15_OctaveSum ==
    (noiseCall.called /\ noiseCall.fn = "perlin") =>
        LET x == noiseCall.x
            y == noiseCall.y
            seed == noiseCall.seed
        IN  IF noiseCall.octaves
            THEN noiseCall.result =
                   Div(octaveTerm(0, x, y, seed) + octaveTerm(1, x, y, seed)
                       + octaveTerm(2, x, y, seed) + octaveTerm(3, x, y, seed),
                       1875)
            ELSE noiseCall.result = rawPerlin(x, y, seed)

\* perlin has been called with octaves off and then on with the same
\* arguments, the higher octaves are not all 0 and the results differ
C15_Witness ==
    /\ sameNoiseArgs
    /\ noiseCall.fn = "perlin"
    /\ noiseCall.octaves /\ ~noisePrev.octaves
    /\ octaveTerm(3, noiseCall.x, noiseCall.y, noiseCall.seed) # 0
    /\ noiseCall.result # noisePrev.result
    /\ noisePrev.result # 0

---------------------------------------------------------------------------
(* Claims about the configuration, checked under SpecConfig. *)

\* C18: config.thresholds holds at least one stop in every state the
\* preset selector, the randomize button, addLayer, removeLayer and the
\* threshold and colour controls lead to
C18_AtLeastOneStop == Len(config.thresholds) >= 1

\* removeLayer has been clicked on a list of one stop: the stop is still
\* there, no draw was requested and none has run
C18_Witness ==
    /\ guiLog.last = "removeLayer"
    /\ Len(config.thresholds) = 1
    /\ drawTimeout = 0
    /\ ~frame.drawn

\* the thresholds of the list ascend strictly
strictlyAscending(stops) ==
    \A i \in 1..(Len(stops) - 1) : stops[i].threshold < stops[i + 1].threshold

\* C20: randomizeTerrain leaves between 3 and 6 layers, with thresholds
\* strictly ascending, all in (0, 1] and the last exactly 1.0, an integer
\* scale in 20..170, maskContrast at least 1.0, maskShape one of circle,
\* square and hexagon, and currentPreset 'Custom'
C20_RandomizeValid ==
    guiLog.last = "randomize" =>
        LET stops == config.thresholds
        IN  /\ Len(stops) \in 3..6
            /\ strictlyAscending(stops)
            /\ \A i \in DOMAIN stops : stops[i].threshold \in 1..1000
            /\ stops[Len(stops)].threshold = 1000
            /\ \A i \in DOMAIN stops : hexToRgb(stops[i].color).r \in 0..255
            /\ config.scale \in 20..170
            /\ config.maskContrast >= 1000
            /\ config.maskShape \in MaskShapes
            /\ config.currentPreset = "Custom"

\* randomizeTerrain has run after another operation and left five layers
\* of different colours, the first at 0.2
C20_Witness ==
    /\ guiLog.last = "randomize"
    /\ guiLog.count = 2
    /\ Len(config.thresholds) = 5
    /\ config.thresholds[1].color # config.thresholds[2].color
    /\ config.thresholds[1].threshold = 200

---------------------------------------------------------------------------
(* Claims about draw() under any configuration, checked under SpecRender. *)

\* C19: draw() produces a pixel buffer only under a configuration with a
\* scale above 0, at least one colour stop and a width and a height above
\* 0; under any other it fails and leaves no buffer
C19_InvalidRejected ==
    frame.drawn =>
        /\ frame.cfg.scale > 0
        /\ Len(frame.cfg.thresholds) > 0
        /\ frame.cfg.width > 0 /\ frame.cfg.height > 0


---------------------------------------------------------------------------
(* Claims about the page at work, checked under SpecPage. *)

\* C21: whenever exportMap runs, the value of every cell of the grid it
\* emits is the masked value of that pixel in the frame most recently drawn
\* on the canvas
C21_ExportShowsDisplay ==
    exported.done =>
        LET w == exported.cfg.width
            h == exported.cfg.height
        IN  /\ exported.shown.drawn
            /\ \A x \in 0..(w - 1), y \in 0..(h - 1) :
                  exported.map[y * w + x + 1].value
                     = exported.shown.px[<<x, y>>].value


---------------------------------------------------------------------------
(* Claims about the layer list, checked under SpecLayers. *)

\* C22: from the list of any preset, the preset selector, the randomize
\* button and the layer buttons keep config.thresholds non-decreasing by
\* threshold, with every threshold in [0, 1]
C22_ThresholdsOrdered ==
    \A i \in DOMAIN config.thresholds :
        /\ inUnit(config.thresholds[i].threshold)
        /\ i > 1 => config.thresholds[i - 1].threshold
                       <= config.thresholds[i].threshold

\* addLayer has put a layer at 1.0 after the layers of a preset, the last
\* of which is at 1.0 too
C22_Witness ==
    /\ guiLog.last = "addLayer"
    /\ config.currentPreset = "Custom"
    /\ Len(config.thresholds) >= 5
    /\ config.thresholds[Len(config.thresholds)] = Stop(1000, White)
    /\ config.thresholds[Len(config.thresholds) - 1].threshold = 1000


---------------------------------------------------------------------------
(* Claims about debouncedDraw, checked under SpecDebounce. *)

\* the browser holds at most one timer of draw(), one exactly while calls
\* of debouncedDraw wait for their draw(), armed TimerDelay ms after the
\* last of them; the draw() of a timer ran TimerDelay ms after the last
\* call before it
oneTimerPerBurst ==
    /\ timer.pending <= 1
    /\ (timer.pending = 1) <=> (timer.calls > 0)
    /\ timer.pending = 1 => timer.left = TimerDelay - timer.since
    /\ timer.fired => timer.waited = TimerDelay

\* C23: at most one draw timer is pending; a call of debouncedDraw cancels
\* the pending timer and arms one of 50 ms, so a burst of calls less than
\* 50 ms apart is followed by one draw(), which runs 50 ms after the last
\* call of the burst, and that draw() does come
C23_OneDrawPerBurst ==
    /\ []oneTimerPerBurst
    /\ (timer.calls > 0) ~> (timer.calls = 0 /\ timer.fired)

\* the draw() of a burst of two calls has run, the second call having come
\* while the timer of the first was pending
C23_Witness ==
    /\ timer.fired /\ timer.calls = 0 /\ timer.pending = 0
    /\ guiLog.count >= 2
    /\ frame.drawn /\ ~prevDraw.drawn


---------------------------------------------------------------------------
(* Claims about applyPreset and the presets, checked under SpecPreset. *)

\* the last call of applyPreset had the name of a preset of the table
knownCall ==
    presetCall.called /\ presetCall.name \in DOMAIN presetStore.presets

\* the preset of the last call as the script defines it
calledPreset == initialPresets(presetStore.page)[presetCall.name]

\* C24: applyPreset(name) with a name that is not a key of presets
\* ('Custom' among them) changes no field of config, does not rebuild the
\* threshold GUI and does not call draw()
C24_UnknownNameNoOp ==
    (presetCall.called /\ presetCall.name \notin DOMAIN presetStore.presets)
       => /\ presetCall.after = presetCall.before
          /\ ~presetCall.rebuilt
          /\ ~presetCall.drew

C26_PresetsIntact ==
    /\ presetStore.presets = initialPresets(presetStore.page)
    /\ presetStore.shared = "none"
    /\ knownCall =>
          presetCall.after.thresholds = calledPreset.thresholds

\* the Island preset has been applied again after config.thresholds, its
\* copy, was changed
C26_Witness ==
    /\ knownCall
    /\ presetCall.name = "Island"
    /\ guiLog.count >= 2
    /\ presetCall.before.thresholds # calledPreset.thresholds
    /\ config.thresholds = calledPreset.thresholds


---------------------------------------------------------------------------
(* Claims about the animation loop, checked under SpecAnim. *)

\* the browser holds one frame callback of loop() while animationId is
\* set and none while it is not
oneCallback ==
    /\ rafPending <= 1
    /\ (rafPending = 1) <=> (animationId # 0)

\* C27: at most one requestAnimationFrame callback of loop() is pending at
\* any time, startAnimation being a no-op while one is scheduled; after
\* stopAnimation none is pending, and loop() does not run and config.time
\* does not advance until startAnimation is called
C27_LoopSingleton ==
    /\ []oneCallback
    /\ [][ (animationId # 0 /\ guiLog'.last = "startAnimation"
                           /\ guiLog'.count = guiLog.count + 1)
              => UNCHANGED <<config, animationId, rafPending, loopLog>> ]_vars
    /\ [][ (frame.drawn /\ animationId = 0
                        /\ (config'.time # config.time
                               \/ loopLog'.runs # loopLog.runs))
              => (guiLog'.last = "startAnimation"
                    /\ guiLog'.count = guiLog.count + 1) ]_vars

\* stopAnimation has cancelled the callback after the time had advanced
C27_Witness ==
    /\ guiLog.last = "stopAnimation"
    /\ animationId = 0 /\ rafPending = 0
    /\ loopLog.runs >= 1
    /\ config.time > 0


---------------------------------------------------------------------------
(* Claims about the walker, checked under SpecWalker. *)

\* C28: after every step() of a walker made by the constructor, the first
\* one included, x and y are not NaN and vx and vy lie in [-speed, speed]
C28_WalkerNotNaN ==
    (walker.made /\ walker.steps >= 1) =>
        /\ ~isNaN(walker.x) /\ ~isNaN(walker.y)
        /\ 0 - walker.speed <= walker.vx /\ walker.vx <= walker.speed
        /\ 0 - walker.speed <= walker.vy /\ walker.vy <= walker.speed

\* the first step of a walker, which found the vx and vy of the
\* constructor NaN, has put it to the centre of the canvas at rest
C28_Witness ==
    /\ walker.made /\ walker.steps = 1
    /\ walker.cw > 0 /\ walker.jitter > 0
    /\ walker.x = walker.cw \div 2 /\ walker.y = walker.ch \div 2
    /\ walker.vx = 0 /\ walker.vy = 0

=============================================================================
